---- MODULE Spec2Model ----
(***************************************************************************)
(* A model of the Azure Face integration for Home Assistant:               *)
(*   azure_client.py  AzureFaceClient (_make_request, _validate_image and  *)
(*                    the client operations built on them)                 *)
(*   services.py      the service handlers (recognize_face, ...)           *)
(*   helpers.py       the registry look-ups                                *)
(*   config_flow.py   validate_input and the two steps of the flow         *)
(*   __init__.py      setup, unload and reload of a config entry           *)
(* A handler is a coroutine: it runs until it awaits something that hands  *)
(* control to the event loop (session.request, response.text(), the        *)
(* camera, a download, asyncio.sleep) and another call may run meanwhile.  *)
(* The variables client .. outcome are the frame of the invocation that    *)
(* runs; parked is the frame of the invocation suspended beside it, and    *)
(* Switch is the event loop turning from one to the other.  Two            *)
(* invocations are followed at a time.                                     *)
(***************************************************************************)
EXTENDS Integers, Sequences, FiniteSets, TLC

(* Bounds of the model                                                     *)

\* largest number of faces in a detect response of the remote service
MaxFaces == 2
\* largest number of candidates in an identify response entry
MaxCandidates == 2
\* how far around MAX_IMAGE_SIZE the buffer lengths are enumerated
SizeSlack == 1
\* how many status polls of one train_group call are followed
MaxPolls == 3

(* const.py                                                                *)

\* DOMAIN of const.py (DOMAIN is a reserved word here)
DOMAIN_NAME == "azure_face"
DEFAULT_TIMEOUT == 10
MAX_IMAGE_SIZE == 6 * 1024 * 1024
SUPPORTED_IMAGE_FORMATS == {"image/jpeg", "image/png", "image/bmp", "image/gif"}

ERROR_INVALID_IMAGE == "invalid_image"
ERROR_NO_FACE_DETECTED == "no_face_detected"
ERROR_MULTIPLE_FACES == "multiple_faces"
ERROR_API_ERROR == "api_error"
ERROR_QUOTA_EXCEEDED == "quota_exceeded"
ERROR_AUTHENTICATION_FAILED == "authentication_failed"

(* JSON values as Python sees them after json.loads.  Every value is a     *)
(* record [t, v]: t is the Python type, v the payload (a dict keeps its    *)
(* items as a sequence of [k, val] in insertion order).                    *)

JNone == [t |-> "NoneType", v |-> "None"]
JStr(s) == [t |-> "str", v |-> s]
JNum(s) == [t |-> "int", v |-> s]
JFloat(s) == [t |-> "float", v |-> s]
JBool(b) == [t |-> "bool", v |-> IF b THEN "True" ELSE "False"]
JList(items) == [t |-> "list", v |-> items]
JDict(items) == [t |-> "dict", v |-> items]
KV(key, val) == [k |-> key, val |-> val]

\* key in d
HasKey(d, key) == \E i \in 1..Len(d.v) : d.v[i].k = key

\* d[key] for a dict that has the key
Item(d, key) == d.v[CHOOSE i \in 1..Len(d.v) : d.v[i].k = key].val

\* d.get(key, default) for a dict d
DictGet(d, key, default) == IF HasKey(d, key) THEN Item(d, key) ELSE default

\* d[key] = val on the items of a dict: the value replaced in place, or the
\* item added at the end
DictSet(items, key, val) ==
    IF \E i \in 1..Len(items) : items[i].k = key
    THEN [i \in 1..Len(items) |-> IF items[i].k = key THEN KV(key, val) ELSE items[i]]
    ELSE Append(items, KV(key, val))

\* d.update(other) on the items of two dicts
RECURSIVE DictUpdate(_, _)
DictUpdate(items, other) ==
    IF other = <<>> THEN items
    ELSE DictUpdate(DictSet(items, Head(other).k, Head(other).val), Tail(other))

\* bool(x)
Truthy(j) ==
    CASE j.t = "NoneType" -> FALSE
      [] j.t = "str" -> j.v # ""
      [] j.t = "int" -> j.v # "0"
      [] j.t = "float" -> j.v # "0.0"
      [] j.t = "bool" -> j.v = "True"
      [] j.t \in {"list", "dict"} -> Len(j.v) > 0

RECURSIVE JsonText(_, _, _)
RECURSIVE JoinItems(_, _, _)
RECURSIVE JoinPairs(_, _, _)

\* the items of a list, serialised and joined by the item separator
JoinItems(items, itemSep, keySep) ==
    IF Len(items) = 0 THEN ""
    ELSE IF Len(items) = 1 THEN JsonText(items[1], itemSep, keySep)
    ELSE JsonText(items[1], itemSep, keySep) \o itemSep
            \o JoinItems(Tail(items), itemSep, keySep)

\* the items of a dict, serialised and joined by the item separator
JoinPairs(items, itemSep, keySep) ==
    IF Len(items) = 0 THEN ""
    ELSE LET first == "\"" \o items[1].k \o "\"" \o keySep
                        \o JsonText(items[1].val, itemSep, keySep)
         IN  IF Len(items) = 1 THEN first
             ELSE first \o itemSep \o JoinPairs(Tail(items), itemSep, keySep)

\* the JSON text of a value with the given separators
JsonText(j, itemSep, keySep) ==
    CASE j.t = "NoneType" -> "null"
      [] j.t = "str" -> "\"" \o j.v \o "\""
      [] j.t \in {"int", "float"} -> j.v
      [] j.t = "bool" -> IF j.v = "True" THEN "true" ELSE "false"
      [] j.t = "list" -> "[" \o JoinItems(j.v, itemSep, keySep) \o "]"
      [] j.t = "dict" -> "{" \o JoinPairs(j.v, itemSep, keySep) \o "}"

\* json.dumps(value): Python's default separators
json_dumps(j) == JsonText(j, ", ", ": ")

\* the compact text a remote service sends for a value
WireText(j) == JsonText(j, ",", ":")

RECURSIVE PyRepr(_)
RECURSIVE ReprItems(_)
RECURSIVE ReprPairs(_)

\* the items of a list as repr prints them
ReprItems(items) ==
    IF Len(items) = 0 THEN ""
    ELSE IF Len(items) = 1 THEN PyRepr(items[1])
    ELSE PyRepr(items[1]) \o ", " \o ReprItems(Tail(items))

\* the items of a dict as repr prints them
ReprPairs(items) ==
    IF Len(items) = 0 THEN ""
    ELSE LET first == "'" \o items[1].k \o "': " \o PyRepr(items[1].val)
         IN  IF Len(items) = 1 THEN first
             ELSE first \o ", " \o ReprPairs(Tail(items))

\* repr(x): strings in single quotes (no string of the model has a quote in
\* it), None, True and False by name, numbers as written
PyRepr(j) ==
    CASE j.t = "str" -> "'" \o j.v \o "'"
      [] j.t \in {"NoneType", "bool", "int", "float"} -> j.v
      [] j.t = "list" -> "[" \o ReprItems(j.v) \o "]"
      [] j.t = "dict" -> "{" \o ReprPairs(j.v) \o "}"

\* str(x) as an f-string renders it: a string bare, anything else as repr
PyStr(j) == IF j.t = "str" THEN j.v ELSE PyRepr(j)

(* The values and texts the remote service answers with.                   *)

Digit(i) ==
    CASE i = 0 -> "0" [] i = 1 -> "1" [] i = 2 -> "2" [] i = 3 -> "3"
      [] i = 4 -> "4" [] i = 5 -> "5" [] i = 6 -> "6" [] i = 7 -> "7"
      [] i = 8 -> "8" [] i = 9 -> "9"

\* the confidence of the i-th ranked candidate
Confidence(i) == CASE i = 1 -> "0.92" [] i = 2 -> "0.81" [] OTHER -> "0.7"

FaceAttributes == JDict(<<KV("age", JFloat("30.0")), KV("glasses", JStr("NoGlasses"))>>)

\* the i-th face object of a detect response
Face(i, withAttributes) ==
    JDict(<<KV("faceId", JStr("f" \o Digit(i)))>>
          \o (IF withAttributes THEN <<KV("faceAttributes", FaceAttributes)>> ELSE <<>>))

\* the i-th candidate object of an identify response
Candidate(i) ==
    JDict(<<KV("personId", JStr("p" \o Digit(i))), KV("confidence", JFloat(Confidence(i)))>>)

\* the identify entry of face i with its n best candidates
Identification(i, n) ==
    JDict(<<KV("faceId", JStr("f" \o Digit(i))),
            KV("candidates", JList([c \in 1..n |-> Candidate(c)]))>>)

DetectValues ==
    { JList([i \in 1..n |-> Face(i, a)]) : n \in 0..MaxFaces, a \in BOOLEAN }
    \cup { JList(<<JDict(<<KV("faceRectangle", JDict(<<>>))>>)>>) }

IdentifyValues ==
    { JList(<<Identification(1, n)>>) : n \in 0..MaxCandidates }
    \cup { JList([i \in 1..n |-> Identification(i, 1)]) : n \in 0..MaxFaces }
    \cup { JList(<<JDict(<<KV("faceId", JStr("f1"))>>)>>),
           JList(<<JDict(<<KV("faceId", JStr("f2")),
                           KV("candidates", JList(<<Candidate(2), Candidate(1)>>))>>)>>) }

ErrorValues ==
    { JDict(<<KV("error", JDict(<<KV("message", JStr("x"))>>))>>),
      JDict(<<KV("error", JDict(<<KV("code", JStr("BadArgument")),
                                  KV("message", JStr("Invalid image"))>>))>>),
      JDict(<<KV("error", JDict(<<KV("code", JStr("BadArgument"))>>))>>),
      JDict(<<KV("message", JStr("y"))>>),
      JDict(<<>>),
      JDict(<<KV("error", JStr("oops"))>>),
      JDict(<<KV("error", JNone)>>),
      JList(<<JStr("oops")>>),
      JStr("oops"), JStr(""), JNum("5"), JNum("0"), JNone }

\* training status payloads: the job running, not started, in a state the
\* handler does not know, succeeded, failed with and without a message
TrainingValues ==
    { JDict(<<KV("status", JStr("running"))>>),
      JDict(<<KV("status", JStr("notstarted"))>>),
      JDict(<<KV("status", JStr("paused"))>>),
      JDict(<<KV("status", JStr("succeeded"))>>),
      JDict(<<KV("status", JStr("failed")), KV("message", JStr("bad data"))>>),
      JDict(<<KV("status", JStr("failed"))>>) }

\* what add_person_face gets back
PersistedValues == { JDict(<<KV("persistedFaceId", JStr("pf1"))>>) }

\* what list_person_groups gets back
GroupListValues ==
    { JList(<<JDict(<<KV("personGroupId", JStr("family")), KV("name", JStr("Family"))>>)>>) }

\* what create_person gets back
PersonValues == { JDict(<<KV("personId", JStr("p9"))>>) }

JsonValues ==
    DetectValues \cup IdentifyValues \cup ErrorValues \cup TrainingValues
        \cup PersistedValues \cup GroupListValues \cup PersonValues

\* response texts that are not JSON
NonJsonTexts == {"", "I'm a teapot", "<html>Bad Gateway</html>"}

\* every response text of the model
Bodies == { WireText(j) : j \in JsonValues } \cup NonJsonTexts

(* Python results: a call returns a value or raises an exception.          *)

Exc(type, code, msg) == [exc |-> type, error_code |-> code, message |-> msg]
NoExc == Exc("none", "none", "")

\* AzureFaceAPIError.__init__
AzureFaceAPIError(message, error_code) == Exc("AzureFaceAPIError", error_code, message)

Return(val) == [kind |-> "return", value |-> val, err |-> NoExc]
Raise(e) == [kind |-> "raise", value |-> JNone, err |-> e]
Pending == [kind |-> "none", value |-> JNone, err |-> NoExc]

\* x.get on a value that is not a dict
NoAttributeGet(j) ==
    Exc("AttributeError", "none", "'" \o j.t \o "' object has no attribute 'get'")

\* the JSON texts of the model, each with the value it stands for
LoadsTable ==
    [text \in { WireText(j) : j \in JsonValues } \cup { json_dumps(j) : j \in JsonValues } |->
        CHOOSE j \in JsonValues : text \in {WireText(j), json_dumps(j)}]

\* json.loads(text): the value whose JSON text this is, else JSONDecodeError
json_loads(text) ==
    IF text \in DOMAIN LoadsTable
    THEN Return(LoadsTable[text])
    ELSE Raise(Exc("JSONDecodeError", "none", "Expecting value: line 1 column 1 (char 0)"))

(* azure_client.py: _make_request                                          *)

\* the statuses the remote service answers with
Statuses == {200, 202, 399, 400, 401, 404, 418, 429, 500}

\* what makes the request fail below HTTP: refused connection, failed name
\* resolution, dropped connection, and the expiry of the total timeout of
\* DEFAULT_TIMEOUT seconds, which aiohttp reports as asyncio.TimeoutError
NetworkFailures ==
    { Exc("ClientConnectorError", "none", "Cannot connect to host"),
      Exc("ClientConnectorDNSError", "none", "Name or service not known"),
      Exc("ServerDisconnectedError", "none", "Server disconnected"),
      Exc("TimeoutError", "none", "") }

\* what makes response.text() fail once the head is there: the connection
\* closes before the body is complete, or the total timeout expires
TextFailures ==
    { Exc("ClientPayloadError", "none", "Response payload is not completed"),
      Exc("TimeoutError", "none", "") }

\* isinstance(err, aiohttp.ClientError)
IsClientError(e) ==
    e.exc \in {"ClientConnectorError", "ClientConnectorDNSError",
               "ServerDisconnectedError", "ClientPayloadError"}

\* ErrorMessage that never looks into the parsed body
ErrorMessageRawOnly(response_text) == Return(JStr(response_text))

\* the error_message of the status >= 400 branch
ErrorMessage(response_text) ==
    LET parsed == json_loads(response_text)
    IN  IF parsed.kind = "raise" THEN Return(JStr(response_text))
        ELSE IF parsed.value.t # "dict" THEN Raise(NoAttributeGet(parsed.value))
        ELSE LET error == DictGet(parsed.value, "error", JDict(<<>>))
             IN  IF error.t # "dict" THEN Raise(NoAttributeGet(error))
                 ELSE Return(JStr(PyStr(DictGet(error, "message", JStr(response_text)))))

\* HandleResponse with the generic status >= 400 branch tested first
HandleResponseGenericFirst(status, response_text) ==
    IF status >= 400
    THEN LET error_message == ErrorMessage(response_text)
         IN  IF error_message.kind = "raise" THEN error_message
             ELSE Raise(AzureFaceAPIError("API error: " \o error_message.value.v,
                                          ERROR_API_ERROR))
    ELSE IF response_text # "" THEN json_loads(response_text)
    ELSE Return(JDict(<<>>))

\* HandleResponse that reads the body of a 200 only
HandleResponseOnly200(status, response_text) ==
    IF status = 401
    THEN Raise(AzureFaceAPIError("Authentication failed. Please check your API key.",
                                 ERROR_AUTHENTICATION_FAILED))
    ELSE IF status = 429
    THEN Raise(AzureFaceAPIError("API quota exceeded. Please wait before retrying.",
                                 ERROR_QUOTA_EXCEEDED))
    ELSE IF status >= 400
    THEN LET error_message == ErrorMessage(response_text)
         IN  IF error_message.kind = "raise" THEN error_message
             ELSE Raise(AzureFaceAPIError("API error: " \o error_message.value.v,
                                          ERROR_API_ERROR))
    ELSE IF status = 200 /\ response_text # "" THEN json_loads(response_text)
    ELSE Return(JDict(<<>>))

\* the body of the "async with" block: the response classified by status
HandleResponse(status, response_text) ==
    IF status = 401
    THEN Raise(AzureFaceAPIError("Authentication failed. Please check your API key.",
                                 ERROR_AUTHENTICATION_FAILED))
    ELSE IF status = 429
    THEN Raise(AzureFaceAPIError("API quota exceeded. Please wait before retrying.",
                                 ERROR_QUOTA_EXCEEDED))
    ELSE IF status >= 400
    THEN LET error_message == ErrorMessage(response_text)
         IN  IF error_message.kind = "raise" THEN error_message
             ELSE Raise(AzureFaceAPIError("API error: " \o error_message.value.v,
                                          ERROR_API_ERROR))
    ELSE IF response_text # "" THEN json_loads(response_text)
    ELSE Return(JDict(<<>>))

\* the except clause of _make_request applied to what the try block did
ExceptClientError(result) ==
    IF result.kind = "raise" /\ IsClientError(result.err)
    THEN Raise(AzureFaceAPIError("Network error: " \o result.err.message, ERROR_API_ERROR))
    ELSE result

(* azure_client.py: _validate_image                                        *)

\* what PIL detects in a buffer; NONE when it identifies no image
ImageFormats == {"JPEG", "PNG", "BMP", "GIF", "TIFF", "WEBP"}

ImageSizes == {0} \cup ((MAX_IMAGE_SIZE - SizeSlack)..(MAX_IMAGE_SIZE + SizeSlack))

\* a byte buffer: its length, the format Image.open detects in it and
\* whether Image.verify accepts it
Images ==
    { [len |-> n, format |-> f, intact |-> i] :
        n \in ImageSizes \ {0}, f \in ImageFormats, i \in BOOLEAN }
    \cup { [len |-> n, format |-> "NONE", intact |-> FALSE] : n \in ImageSizes }

NoImage == [len |-> 0, format |-> "NONE", intact |-> FALSE]

\* str.lower on a format name
Lower(format) ==
    CASE format = "JPEG" -> "jpeg" [] format = "PNG" -> "png"
      [] format = "BMP" -> "bmp" [] format = "GIF" -> "gif"
      [] format = "TIFF" -> "tiff" [] format = "WEBP" -> "webp"

\* f"{MAX_IMAGE_SIZE / (1024 * 1024):.1f}"
SizeInMB ==
    Digit(MAX_IMAGE_SIZE \div (1024 * 1024)) \o "."
        \o Digit(((MAX_IMAGE_SIZE * 10) \div (1024 * 1024)) % 10)

\* TooLarge with the bound itself rejected
TooLargeInclusive(image_data) == image_data.len >= MAX_IMAGE_SIZE

\* len(image_data) > MAX_IMAGE_SIZE
TooLarge(image_data) == image_data.len > MAX_IMAGE_SIZE

\* the try block of _validate_image: open, verify, format check
ValidateTry(image_data) ==
    IF image_data.format = "NONE"
    THEN Raise(Exc("UnidentifiedImageError", "none", "cannot identify image file"))
    ELSE IF ~image_data.intact
    THEN Raise(Exc("SyntaxError", "none", "broken image file"))
    ELSE IF ("image/" \o Lower(image_data.format)) \notin SUPPORTED_IMAGE_FORMATS
    THEN Raise(AzureFaceAPIError("Unsupported image format: " \o image_data.format
                                    \o ". Supported formats: JPEG, PNG, BMP, GIF",
                                 ERROR_INVALID_IMAGE))
    ELSE Return(JNone)

_validate_image(image_data) ==
    IF TooLarge(image_data)
    THEN Raise(AzureFaceAPIError("Image size exceeds maximum of " \o SizeInMB \o "MB",
                                 ERROR_INVALID_IMAGE))
    ELSE IF ValidateTry(image_data).kind = "raise"
    THEN Raise(AzureFaceAPIError("Invalid image format or corrupted image",
                                 ERROR_INVALID_IMAGE))
    ELSE Return(JNone)

(* The state                                                               *)

VARIABLES
    client,     \* the AzureFaceClient: its endpoint and api_key
    hass_data,  \* hass.data[DOMAIN]: the configured entries, oldest first
    call,       \* the client operation in progress or last run, with its arguments
    cpc,        \* where that operation stands
    reply,      \* what came back for its request: a response or a failure
    cres,       \* what the operation returned or raised
    wire,       \* the HTTP requests issued since the invocation started
    mr_calls,   \* the invocations of _make_request since then
    svc,        \* the service handler running, "none" for a bare client call
    spc,        \* where the handler stands
    loc,        \* the handler's local variables
    events,     \* the events the handler fired on the bus, oldest first
    outcome,    \* what the handler returned or raised
    tasks,      \* the frames of the invocations that run concurrently on one client
    registered, \* whether the services of the integration are registered
    parked,     \* the frame of the other invocation under way, suspended at an await
    contended,  \* the entry ids two calls of __init__.py have been under way on at once
    course      \* how the invocation has run so far: "fresh", "wide" or "beside"

clientVars == <<call, cpc, reply, cres, wire, mr_calls>>
handlerVars == <<svc, spc, loc, events, outcome>>
vars == <<client, hass_data, call, cpc, reply, cres, wire, mr_calls,
          svc, spc, loc, events, outcome, tasks, registered, parked, contended, course>>

(* azure_client.py: the client and its operations                          *)

Endpoints == {"https://eastus.api.cognitive.microsoft.com",
              "https://eastus.api.cognitive.microsoft.com/"}

\* endpoint.rstrip("/")
RStripSlash(endpoint) ==
    IF endpoint = "https://eastus.api.cognitive.microsoft.com/"
    THEN "https://eastus.api.cognitive.microsoft.com" ELSE endpoint

\* AzureFaceClient.__init__
AzureFaceClient(endpoint, api_key) ==
    [endpoint |-> RStripSlash(endpoint), api_key |-> api_key]

ClientOps == {"detect_faces", "identify_faces", "create_person_group",
              "train_person_group", "get_person_group_training_status",
              "create_person", "add_person_face", "list_person_groups",
              "get_person_group", "list_persons", "get_person"}

\* the operations that transmit raw image bytes
ImageOps == {"detect_faces", "add_person_face"}

\* a call of a client operation with the defaults of its signature
NewCall(op) ==
    [op |-> op, image |-> NoImage, person_group_id |-> "family", person_id |-> "p1",
     name |-> "Family", user_data |-> "", face_ids |-> <<>>,
     max_candidates |-> "1", confidence_threshold |-> "0.5",
     detection_model |-> "detection_03", recognition_model |-> "recognition_04",
     data |-> [kind |-> "none", json |-> JNone, image |-> NoImage], headers |-> <<>>]

NoCall == NewCall("none")

NoData == [kind |-> "none", json |-> JNone, image |-> NoImage]
DictData(j) == [kind |-> "dict", json |-> j, image |-> NoImage]
BytesData(image) == [kind |-> "bytes", json |-> JNone, image |-> image]

\* the name and optional userData of a create request
NamedData(c, first) ==
    first \o (IF c.user_data # "" THEN <<KV("userData", JStr(c.user_data))>> ELSE <<>>)

\* method, url, data, params and headers each operation hands to
\* _make_request (no operation passes headers); _make_request called on its
\* own gets the data and headers of the call
RequestOf(c) ==
    LET base == client.endpoint \o "/face/v1.0"
        groups == base \o "/persongroups"
        group == groups \o "/" \o c.person_group_id
        req(method, url, data, params) ==
            [method |-> method, url |-> url, data |-> data, params |-> params,
             headers |-> IF c.op = "_make_request" THEN c.headers ELSE <<>>]
    IN  CASE c.op = "_make_request" -> req("POST", groups, c.data, <<>>)
          [] c.op = "detect_faces" ->
               req("POST", base \o "/detect", BytesData(c.image),
                   <<KV("detectionModel", JStr(c.detection_model)),
                     KV("returnFaceId", JBool(TRUE)),
                     KV("returnFaceLandmarks", JBool(FALSE)),
                     KV("returnFaceAttributes", JStr("age,gender,emotion,facialHair,glasses,smile,makeup,accessories,blur,exposure,noise"))>>)
          [] c.op = "identify_faces" ->
               req("POST", base \o "/identify",
                   DictData(JDict(<<KV("faceIds", JList(c.face_ids)),
                                    KV("personGroupId", JStr(c.person_group_id)),
                                    KV("maxNumOfCandidatesReturned", JNum(c.max_candidates)),
                                    KV("confidenceThreshold", JFloat(c.confidence_threshold))>>)),
                   <<>>)
          [] c.op = "create_person_group" ->
               req("PUT", group,
                   DictData(JDict(NamedData(c, <<KV("name", JStr(c.name)),
                                                 KV("recognitionModel", JStr(c.recognition_model))>>))),
                   <<>>)
          [] c.op = "train_person_group" -> req("POST", group \o "/train", NoData, <<>>)
          [] c.op = "get_person_group_training_status" ->
               req("GET", group \o "/training", NoData, <<>>)
          [] c.op = "create_person" ->
               req("POST", group \o "/persons",
                   DictData(JDict(NamedData(c, <<KV("name", JStr(c.name))>>))), <<>>)
          [] c.op = "add_person_face" ->
               req("POST", group \o "/persons/" \o c.person_id \o "/persistedFaces",
                   BytesData(c.image), <<KV("detectionModel", JStr(c.detection_model))>>)
          [] c.op = "list_person_groups" -> req("GET", groups, NoData, <<>>)
          [] c.op = "get_person_group" -> req("GET", group, NoData, <<>>)
          [] c.op = "list_persons" -> req("GET", group \o "/persons", NoData, <<>>)
          [] c.op = "get_person" ->
               req("GET", group \o "/persons/" \o c.person_id, NoData, <<>>)

\* HttpRequest with the headers of the caller applied last
HttpRequestCallerLast(r) ==
    LET default_headers == <<KV("Ocp-Apim-Subscription-Key", client.api_key)>>
        typed == CASE r.data.kind = "dict" ->
                        DictSet(default_headers, "Content-Type", "application/json")
                   [] r.data.kind = "bytes" ->
                        DictSet(default_headers, "Content-Type", "application/octet-stream")
                   [] OTHER -> default_headers
    IN  [method |-> r.method, url |-> r.url, params |-> r.params,
         headers |-> DictUpdate(typed, r.headers),
         data |-> IF r.data.kind = "dict"
                  THEN [kind |-> "bytes", text |-> json_dumps(r.data.json), image |-> NoImage]
                  ELSE [kind |-> r.data.kind, text |-> "", image |-> r.data.image],
         timeout |-> DEFAULT_TIMEOUT]

\* the request _make_request hands to session.request: headers and body encoded
HttpRequest(r) ==
    LET default_headers == <<KV("Ocp-Apim-Subscription-Key", client.api_key)>>
        updated == DictUpdate(default_headers, r.headers)
    IN  [method |-> r.method, url |-> r.url, params |-> r.params,
         headers |-> CASE r.data.kind = "dict" ->
                            DictSet(updated, "Content-Type", "application/json")
                       [] r.data.kind = "bytes" ->
                            DictSet(updated, "Content-Type", "application/octet-stream")
                       [] OTHER -> updated,
         data |-> IF r.data.kind = "dict"
                  THEN [kind |-> "bytes", text |-> json_dumps(r.data.json), image |-> NoImage]
                  ELSE [kind |-> r.data.kind, text |-> "", image |-> r.data.image],
         timeout |-> DEFAULT_TIMEOUT]

\* FirstStep without the validation
FirstStepUnvalidated(op) == "request"

\* where an operation starts: the image-carrying ones validate first
FirstStep(op) == IF op \in ImageOps THEN "validate" ELSE "request"

\* AfterResponse with the request issued again after a 429
AfterResponseRetry(result) ==
    IF result.kind = "raise" /\ result.err.error_code = ERROR_QUOTA_EXCEEDED
    THEN [cpc |-> "await", wire |-> Append(wire, wire[Len(wire)])]
    ELSE [cpc |-> IF result.kind = "raise" THEN "raised" ELSE "returned", wire |-> wire]

\* _make_request ends with the return or the raise: cpc and wire afterwards
AfterResponse(result) ==
    [cpc |-> IF result.kind = "raise" THEN "raised" ELSE "returned", wire |-> wire]

\* what the operation makes of the result of _make_request: it passes it on,
\* but create_person_group and train_person_group return None
OpResult(op, result) ==
    IF result.kind = "return" /\ op \in {"create_person_group", "train_person_group"}
    THEN Return(JNone) ELSE result

NoReply == [kind |-> "none", status |-> 0, text |-> "", err |-> NoExc]
Response(status, text) == [kind |-> "response", status |-> status, text |-> text, err |-> NoExc]
Failure(e) == [kind |-> "failure", status |-> 0, text |-> "", err |-> e]
\* the head of a response whose body is still to be read
ResponseHead(status) == [kind |-> "head", status |-> status, text |-> "", err |-> NoExc]
\* a response whose body could not be read
BodyFailure(status, e) == [kind |-> "failure", status |-> status, text |-> "", err |-> e]

\* polled is the record of the loop of async_train_group: the values of
\* status["status"] it has read, oldest first; image_data, image_path and
\* image_url are the three sources of async_upload_person_image and read the
\* record of the sources it has read; endpoint is the endpoint given to the
\* user step of the config flow, region its region, validated what its
\* validate_input gave and errors the errors["base"] of the step; entry_id is the
\* config entry async_setup_entry, async_unload_entry or async_reload_entry
\* is called with
NoLoc == [camera_entity |-> "", confidence_threshold |-> "", person_group_id |-> "",
          faces |-> JNone, polled |-> <<>>,
          image_data |-> [kind |-> "absent"], image_path |-> [kind |-> "absent"],
          image_url |-> [kind |-> "absent"], read |-> <<>>,
          endpoint |-> "", errors |-> "", entry_id |-> "",
          region |-> "", validated |-> Pending]

\* the variables of the invocation that is running, as one record
Frame ==
    [client |-> client, call |-> call, cpc |-> cpc, reply |-> reply, cres |-> cres,
     wire |-> wire, mr_calls |-> mr_calls, svc |-> svc, spc |-> spc, loc |-> loc,
     events |-> events, outcome |-> outcome]

\* no other invocation is under way
NoParked ==
    [client |-> AzureFaceClient("https://eastus.api.cognitive.microsoft.com", "k"),
     call |-> NoCall, cpc |-> "idle", reply |-> NoReply, cres |-> Pending,
     wire |-> <<>>, mr_calls |-> 0, svc |-> "none", spc |-> "none", loc |-> NoLoc,
     events |-> <<>>, outcome |-> Pending]

\* the registries the handlers may find: none, one or two configured entries
Registries ==
    { <<>>,
      <<[entry_id |-> "entry1", person_group_id |-> "family",
         client |-> AzureFaceClient("https://eastus.api.cognitive.microsoft.com", "k")]>>,
      <<[entry_id |-> "entry2", person_group_id |-> "office",
         client |-> AzureFaceClient("https://eastus.api.cognitive.microsoft.com/", "k2")],
        [entry_id |-> "entry1", person_group_id |-> "family",
         client |-> AzureFaceClient("https://eastus.api.cognitive.microsoft.com", "k")]>> }

\* the answers and inputs followed while two invocations are under way
SmallStatuses == {200}
SmallBodies == {""}
SmallFailures == { Exc("ClientConnectorError", "none", "Cannot connect to host") }
SmallImage(i) ==
    i = NoImage \/ (i.intact /\ i.len = MAX_IMAGE_SIZE - 1 /\ i.format \in {"JPEG", "GIF"})
SmallGroupIds == {"", "family", "office"}

\* a frame within them; a client operation called on its own stays alone,
\* and only async_train_group is told that the training is running
SmallFrame(F) ==
    /\ F.svc # "none" \/ F.cpc = "idle"
    /\ F.reply.status \in {0} \cup SmallStatuses
    /\ \/ F.reply.text \in SmallBodies
       \/ F.svc = "train_group" /\ F.reply.text = "{\"status\":\"running\"}"
    /\ F.reply.err \in {NoExc} \cup SmallFailures
    /\ SmallImage(F.call.image)
    /\ F.call.person_group_id \in SmallGroupIds /\ F.call.name # ""
    /\ F.loc.person_group_id \in SmallGroupIds
    /\ F.loc.image_data.kind = "absent" /\ F.loc.image_path.kind = "absent"
    /\ F.loc.image_url.kind \in {"absent", "ok"}
    /\ F.loc.confidence_threshold \in {"", "0.7"}
    /\ F.loc.region \in {"", "eastus"}
    /\ F.svc = "step_person_group" => F.loc.errors \in {"", "cannot_create_group"}
    /\ Len(F.loc.polled) <= 1

\* the bound of the model: every answer and input is followed for an
\* invocation that runs on its own from start to end ("wide"), which for a
\* service handler or a config flow step is on a registry of Registries;
\* invocations that run beside one another ("beside"), and handlers on a
\* registry the entry points of __init__.py have changed, stay within the
\* small universe.  "fresh" is an invocation on its own that has not left
\* the small universe yet, and the integration at rest.
Track ==
    /\ course' = IF course = "fresh" /\ ~SmallFrame(Frame') THEN "wide" ELSE course
    /\ course' = "wide" =>
          (hass_data' \in Registries \/ svc' \in {"setup_entry", "reload_entry", "unload_entry"})
    /\ course' = "beside" => SmallFrame(Frame')

\* the operation is entered
BeginOp(c) ==
    /\ call' = c
    /\ reply' = NoReply
    /\ cpc' = FirstStep(c.op)
    /\ cres' = Pending

\* detect_faces / add_person_face: await self._validate_image(image_data)
ValidateImage ==
    /\ cpc = "validate"
    /\ LET r == _validate_image(call.image)
       IN  IF r.kind = "raise"
           THEN cpc' = "raised" /\ cres' = r
           ELSE cpc' = "request" /\ cres' = cres
    /\ UNCHANGED <<parked, contended, tasks, registered, client, hass_data, call, reply, wire, mr_calls, handlerVars>>
    /\ Track

\* _make_request up to its suspension: headers, body encoding, session.request
SendRequest ==
    /\ cpc = "request"
    /\ mr_calls' = mr_calls + 1
    /\ wire' = Append(wire, HttpRequest(RequestOf(call)))
    /\ cpc' = "await"
    /\ UNCHANGED <<parked, contended, tasks, registered, client, hass_data, call, reply, cres, handlerVars>>
    /\ Track

\* the head of the response arrives: session.request gives the response and
\* _make_request suspends again in response.text()
ReceiveResponse ==
    /\ cpc = "await"
    /\ \E status \in Statuses : reply' = ResponseHead(status)
    /\ cpc' = "text"
    /\ UNCHANGED <<parked, contended, tasks, registered, client, hass_data, call, cres, wire, mr_calls,
                   handlerVars>>
    /\ Track

\* the body has been read: _make_request classifies the response
ReadText ==
    /\ cpc = "text"
    /\ \E response_text \in Bodies :
         LET result == ExceptClientError(HandleResponse(reply.status, response_text))
         IN  /\ reply' = Response(reply.status, response_text)
             /\ cres' = OpResult(call.op, result)
             /\ cpc' = AfterResponse(result).cpc
             /\ wire' = AfterResponse(result).wire
    /\ UNCHANGED <<parked, contended, tasks, registered, client, hass_data, call, mr_calls, handlerVars>>
    /\ Track

\* reading the body fails
ReadTextFails ==
    /\ cpc = "text"
    /\ \E e \in TextFailures :
         LET result == ExceptClientError(Raise(e))
         IN  /\ reply' = BodyFailure(reply.status, e)
             /\ cres' = OpResult(call.op, result)
             /\ cpc' = AfterResponse(result).cpc
             /\ wire' = AfterResponse(result).wire
    /\ UNCHANGED <<parked, contended, tasks, registered, client, hass_data, call, mr_calls, handlerVars>>
    /\ Track

\* the request fails below HTTP
RequestFails ==
    /\ cpc = "await"
    /\ \E e \in NetworkFailures :
         LET result == ExceptClientError(Raise(e))
         IN  /\ reply' = Failure(e)
             /\ cres' = OpResult(call.op, result)
             /\ cpc' = AfterResponse(result).cpc
             /\ wire' = AfterResponse(result).wire
    /\ UNCHANGED <<parked, contended, tasks, registered, client, hass_data, call, mr_calls, handlerVars>>
    /\ Track

(* Python on the values of a response                                      *)

\* len(x)
PyLen(j) ==
    IF j.t \in {"list", "dict", "str"} THEN Return(Len(j.v))
    ELSE Raise(Exc("TypeError", "none", "object of type '" \o j.t \o "' has no len()"))

\* what "for item in x" goes through: the items of a list, the keys of a
\* dict, the characters of a string (each a str, whatever the letter)
PyIter(j) ==
    CASE j.t = "list" -> Return(j.v)
      [] j.t = "dict" -> Return([i \in 1..Len(j.v) |-> JStr(j.v[i].k)])
      [] j.t = "str" -> Return([i \in 1..Len(j.v) |-> JStr("c")])
      [] OTHER -> Raise(Exc("TypeError", "none", "'" \o j.t \o "' object is not iterable"))

\* x[key] for a string key
Subscript(j, key) ==
    IF j.t = "dict"
    THEN IF HasKey(j, key) THEN Return(Item(j, key))
         ELSE Raise(Exc("KeyError", "none", "'" \o key \o "'"))
    ELSE IF j.t = "list"
    THEN Raise(Exc("TypeError", "none", "list indices must be integers or slices, not str"))
    ELSE IF j.t = "str"
    THEN Raise(Exc("TypeError", "none", "string indices must be integers, not 'str'"))
    ELSE Raise(Exc("TypeError", "none", "'" \o j.t \o "' object is not subscriptable"))

\* x.get(key, default)
PyGet(j, key, default) ==
    IF j.t = "dict" THEN Return(DictGet(j, key, default)) ELSE Raise(NoAttributeGet(j))

\* the results of a loop body on the items in order: the values of all, or
\* the first exception raised
Collect(rs) ==
    LET failed == { i \in 1..Len(rs) : rs[i].kind = "raise" }
    IN  IF failed # {}
        THEN rs[CHOOSE i \in failed : \A k \in failed : i <= k]
        ELSE Return([i \in 1..Len(rs) |-> rs[i].value])

(* helpers.py                                                              *)

\* get_azure_face_client(hass) and get_person_group_id(hass), no entry_id:
\* the first entry, or ValueError when nothing is configured
FirstEntry ==
    IF Len(hass_data) = 0
    THEN Raise(Exc("ValueError", "none", "Azure Face integration not set up"))
    ELSE Return(hass_data[1])

(* services.py: async_recognize_face                                       *)

HomeAssistantError(message) == Exc("HomeAssistantError", "none", message)

CameraEntities == {"camera.front_door"}
ConfidenceThresholds == {"0.7", "0.5"}

\* what async_get_image gives: an image, nothing, or a failure of the camera
CameraAnswers ==
    { [kind |-> "image", image |-> i, err |-> NoExc] : i \in Images }
    \cup { [kind |-> "none", image |-> NoImage, err |-> NoExc],
           [kind |-> "raise", image |-> NoImage,
            err |-> HomeAssistantError("Unable to get image")] }

\* hass.bus.async_fire(event_type, data) after the events fired so far
Fire(fired, event_type, data) == Append(fired, [event_type |-> event_type, data |-> data])

RecognitionResult == DOMAIN_NAME \o "_recognition_result"

\* MultipleFaces that lets two faces through
MultipleFacesOverTwo(n) == n > 2

\* len(faces) > 1
MultipleFaces(n) == n > 1

\* face_ids = [face["faceId"] for face in faces]
FaceIds(faces) ==
    LET it == PyIter(faces)
    IN  IF it.kind = "raise" THEN it
        ELSE Collect([i \in 1..Len(it.value) |-> Subscript(it.value[i], "faceId")])

\* the entry appended to result["candidates"] for one candidate
ShapeCandidate(candidate) ==
    LET person_id == Subscript(candidate, "personId")
        confidence == Subscript(candidate, "confidence")
    IN  IF person_id.kind = "raise" THEN person_id
        ELSE IF confidence.kind = "raise" THEN confidence
        ELSE Return([person_id |-> person_id.value, confidence |-> confidence.value])

\* ShapeCandidates that keeps the best candidate only
ShapeCandidatesBestOnly(found) ==
    LET it == PyIter(found)
    IN  IF it.kind = "raise" THEN it
        ELSE Collect([i \in 1..(IF Len(it.value) > 1 THEN 1 ELSE Len(it.value)) |->
                         ShapeCandidate(it.value[i])])

\* result["candidates"] after the loop over identification.get("candidates", [])
ShapeCandidates(found) ==
    LET it == PyIter(found)
    IN  IF it.kind = "raise" THEN it
        ELSE Collect([i \in 1..Len(it.value) |-> ShapeCandidate(it.value[i])])

\* one pass of the loop over enumerate(identifications), i counted from 1
ShapeIdentification(faces, i, identification) ==
    IF i > Len(faces.v)
    THEN Raise(Exc("IndexError", "none", "list index out of range"))
    ELSE LET face_data == faces.v[i]
             face_id == Subscript(identification, "faceId")
             face_attributes == PyGet(face_data, "faceAttributes", JDict(<<>>))
             found == PyGet(identification, "candidates", JList(<<>>))
         IN  IF face_id.kind = "raise" THEN face_id
             ELSE IF face_attributes.kind = "raise" THEN face_attributes
             ELSE IF ShapeCandidates(found.value).kind = "raise"
             THEN ShapeCandidates(found.value)
             ELSE Return([face_id |-> face_id.value,
                          face_attributes |-> face_attributes.value,
                          candidates |-> ShapeCandidates(found.value).value])

\* results after the loop over the identify response
ShapeResults(faces, identifications) ==
    LET it == PyIter(identifications)
    IN  IF it.kind = "raise" THEN it
        ELSE Collect([i \in 1..Len(it.value) |->
                         ShapeIdentification(faces, i, it.value[i])])

\* RecognizeExcept that reports the error on the bus and then returns normally
RecognizeExceptSwallowed(fired, camera_entity, err) ==
    IF err.exc = "AzureFaceAPIError"
    THEN [events |-> Fire(fired, RecognitionResult,
                          [camera_entity |-> camera_entity, faces_detected |-> 0,
                           identifications |-> <<>>, error |-> err.message]),
          outcome |-> Return(JNone)]
    ELSE [events |-> fired,
          outcome |-> Raise(HomeAssistantError("Face recognition failed: " \o err.message))]

\* the two except clauses of async_recognize_face: events and outcome after them
RecognizeExcept(fired, camera_entity, err) ==
    IF err.exc = "AzureFaceAPIError"
    THEN [events |-> Fire(fired, RecognitionResult,
                          [camera_entity |-> camera_entity, faces_detected |-> 0,
                           identifications |-> <<>>, error |-> err.message]),
          outcome |-> Raise(HomeAssistantError("Azure Face API error: " \o err.message))]
    ELSE [events |-> fired,
          outcome |-> Raise(HomeAssistantError("Face recognition failed: " \o err.message))]

\* the early return of the guards: one tagged event, no failure
RecognizeShortCircuit(fired, camera_entity, count, tag) ==
    [events |-> Fire(fired, RecognitionResult,
                     [camera_entity |-> camera_entity, faces_detected |-> count,
                      identifications |-> <<>>, error |-> tag]),
     outcome |-> Return(JNone)]

\* no invocation is in progress and none has left a result behind
Idle == cpc = "idle" /\ svc = "none"

\* the entry points of __init__.py that work on the registry
LifecycleCalls == {"setup_entry", "reload_entry", "unload_entry"}

\* the suspended invocation is a setup, unload or reload of this entry
BesideSameEntry(entry_id) ==
    parked.svc \in LifecycleCalls /\ parked.loc.entry_id = entry_id

\* a setup, unload or reload of this entry starts: when another one of the
\* same entry is suspended beside it, the two are under way on it at once
Meets(entry_id) ==
    IF BesideSameEntry(entry_id) THEN contended \cup {entry_id} ELSE contended

\* the invocation has run to its end: the operation or handler returned or raised
Finished ==
    \/ svc = "none" /\ cpc \in {"returned", "raised"}
    \/ svc # "none" /\ spc = "done"

\* the caller takes the result of the finished invocation; the next
\* invocation starts with nothing left over from this one
Deliver ==
    /\ Finished
    /\ call' = NoCall /\ cpc' = "idle" /\ reply' = NoReply /\ cres' = Pending
    /\ wire' = <<>> /\ mr_calls' = 0
    /\ svc' = "none" /\ spc' = "none" /\ loc' = NoLoc
    /\ events' = <<>> /\ outcome' = Pending
    /\ course' = IF parked = NoParked THEN "fresh" ELSE "beside"
    /\ contended' = IF svc \in LifecycleCalls /\ ~BesideSameEntry(loc.entry_id)
                    THEN contended \ {loc.entry_id} ELSE contended
    /\ UNCHANGED <<parked, tasks, registered, client, hass_data>>

\* the invocation stands at an await that hands control to the event loop:
\* session.request and response.text() in _make_request, the camera, the
\* download of an image, the registration of the panel, asyncio.sleep
Suspended ==
    \/ cpc \in {"await", "text"}
    \/ spc \in {"camera", "download", "read", "panel", "sleep"}

\* the event loop turns to the other invocation: the one that ran is
\* suspended and keeps its frame, the other resumes where it stood (or none
\* is running any more and a new call can come in)
Switch ==
    /\ Idle \/ Suspended
    /\ ~(Idle /\ parked = NoParked)
    /\ course # "wide"
    /\ parked' = IF Idle THEN NoParked ELSE Frame
    /\ client' = parked.client
    /\ call' = parked.call /\ cpc' = parked.cpc /\ reply' = parked.reply
    /\ cres' = parked.cres /\ wire' = parked.wire /\ mr_calls' = parked.mr_calls
    /\ svc' = parked.svc /\ spc' = parked.spc /\ loc' = parked.loc
    /\ events' = parked.events /\ outcome' = parked.outcome
    /\ course' = "beside"
    /\ UNCHANGED <<hass_data, tasks, registered, contended>>

\* the group ids and names create_person_group is called with: ids inside and
\* outside [A-Za-z0-9_-]+, a name and the empty name
GroupIdInputs == {"family", "family_2-A", "bad id!"}
GroupNameInputs == {"Family", ""}

\* a client operation is called on its own
DirectCall ==
    /\ Idle
    /\ \E op \in ClientOps, endpoint \in Endpoints :
         \E image \in (IF op \in ImageOps THEN Images ELSE {NoImage}),
            person_group_id \in (IF op = "create_person_group" THEN GroupIdInputs
                                 ELSE {"family"}),
            name \in (IF op = "create_person_group" THEN GroupNameInputs ELSE {"Family"}) :
            /\ client' = AzureFaceClient(endpoint, "k")
            /\ BeginOp([NewCall(op) EXCEPT !.image = image,
                           !.person_group_id = person_group_id, !.name = name,
                           !.face_ids = IF op = "identify_faces" THEN <<JStr("f1")>> ELSE <<>>])
    /\ wire' = <<>>
    /\ mr_calls' = 0
    /\ svc' = "none" /\ spc' = "none" /\ loc' = NoLoc
    /\ events' = <<>> /\ outcome' = Pending
    /\ UNCHANGED <<hass_data, parked, contended, tasks, registered>>
    /\ Track

\* the bodies _make_request is called with on its own: none, a dict, bytes
RequestDatas ==
    { NoData,
      DictData(JDict(<<KV("name", JStr("Family"))>>)),
      BytesData([len |-> MAX_IMAGE_SIZE, format |-> "JPEG", intact |-> TRUE]) }

\* the headers it is called with: none, one of another name, one of the name
\* of the key header, a content type
ExtraHeaders ==
    { <<>>,
      <<KV("Accept", "application/json")>>,
      <<KV("Ocp-Apim-Subscription-Key", "other")>>,
      <<KV("Content-Type", "text/plain")>> }

\* _make_request is called on its own
DirectRequest ==
    /\ Idle
    /\ \E data \in RequestDatas, headers \in ExtraHeaders :
         BeginOp([NewCall("_make_request") EXCEPT !.data = data, !.headers = headers])
    /\ client' = AzureFaceClient("https://eastus.api.cognitive.microsoft.com", "k")
    /\ wire' = <<>>
    /\ mr_calls' = 0
    /\ svc' = "none" /\ spc' = "none" /\ loc' = NoLoc
    /\ events' = <<>> /\ outcome' = Pending
    /\ UNCHANGED <<hass_data, parked, contended, tasks, registered>>
    /\ Track

\* async_recognize_face up to its first suspension: the client and the group
\* are read from the registry, then the handler waits for the camera
RecognizeStart ==
    /\ Idle
    /\ \E camera_entity \in CameraEntities, confidence_threshold \in ConfidenceThresholds :
         LET entry == FirstEntry
             fin == RecognizeExcept(<<>>, camera_entity, entry.err)
         IN  /\ svc' = "recognize_face"
             /\ IF entry.kind = "raise"
                THEN /\ spc' = "done"
                     /\ events' = fin.events
                     /\ outcome' = fin.outcome
                     /\ loc' = [NoLoc EXCEPT !.camera_entity = camera_entity,
                                   !.confidence_threshold = confidence_threshold]
                     /\ UNCHANGED client
                ELSE /\ spc' = "camera"
                     /\ events' = <<>>
                     /\ outcome' = Pending
                     /\ loc' = [NoLoc EXCEPT !.camera_entity = camera_entity,
                                   !.confidence_threshold = confidence_threshold,
                                   !.person_group_id = entry.value.person_group_id]
                     /\ client' = entry.value.client
    /\ call' = NoCall /\ cpc' = "idle" /\ cres' = Pending /\ reply' = NoReply
    /\ wire' = <<>>
    /\ mr_calls' = 0
    /\ UNCHANGED <<hass_data, parked, contended, tasks, registered>>
    /\ Track

\* async_recognize_face from the answer of the camera to the call of
\* detect_faces, or to its end when there is no image
RecognizeCamera ==
    /\ svc = "recognize_face" /\ spc = "camera"
    /\ \E camera \in CameraAnswers :
         LET failure == IF camera.kind = "raise" THEN camera.err
                        ELSE HomeAssistantError("Could not get image from camera "
                                                    \o loc.camera_entity)
             fin == RecognizeExcept(events, loc.camera_entity, failure)
         IN  IF camera.kind # "image"
             THEN /\ spc' = "done"
                  /\ events' = fin.events
                  /\ outcome' = fin.outcome
                  /\ UNCHANGED <<call, cpc, reply, cres>>
             ELSE /\ spc' = "detect"
                  /\ BeginOp([NewCall("detect_faces") EXCEPT !.image = camera.image])
                  /\ UNCHANGED <<events, outcome>>
    /\ UNCHANGED <<parked, contended, tasks, registered, client, hass_data, wire, mr_calls, svc, loc>>
    /\ Track

\* async_recognize_face from the result of detect_faces to the call of
\* identify_faces or to its end
RecognizeAfterDetect ==
    /\ svc = "recognize_face" /\ spc = "detect"
    /\ cpc \in {"returned", "raised"}
    /\ LET faces == cres.value
           count == PyLen(faces)
           face_ids == FaceIds(faces)
           fin == IF cres.kind = "raise"
                  THEN RecognizeExcept(events, loc.camera_entity, cres.err)
                  ELSE IF ~Truthy(faces)
                  THEN RecognizeShortCircuit(events, loc.camera_entity, 0,
                                             ERROR_NO_FACE_DETECTED)
                  ELSE IF count.kind = "raise"
                  THEN RecognizeExcept(events, loc.camera_entity, count.err)
                  ELSE IF MultipleFaces(count.value)
                  THEN RecognizeShortCircuit(events, loc.camera_entity, count.value,
                                             ERROR_MULTIPLE_FACES)
                  ELSE RecognizeExcept(events, loc.camera_entity, face_ids.err)
           goesOn == /\ cres.kind = "return" /\ Truthy(faces)
                     /\ count.kind = "return" /\ ~MultipleFaces(count.value)
                     /\ face_ids.kind = "return"
       IN  IF goesOn
           THEN /\ spc' = "identify"
                /\ loc' = [loc EXCEPT !.faces = faces]
                /\ BeginOp([NewCall("identify_faces") EXCEPT
                               !.face_ids = face_ids.value,
                               !.person_group_id = loc.person_group_id,
                               !.confidence_threshold = loc.confidence_threshold])
                /\ UNCHANGED <<events, outcome>>
           ELSE /\ spc' = "done"
                /\ events' = fin.events
                /\ outcome' = fin.outcome
                /\ UNCHANGED <<loc, call, cpc, reply, cres>>
    /\ UNCHANGED <<parked, contended, tasks, registered, client, hass_data, wire, mr_calls, svc>>
    /\ Track

\* async_recognize_face from the result of identify_faces to its end
RecognizeAfterIdentify ==
    /\ svc = "recognize_face" /\ spc = "identify"
    /\ cpc \in {"returned", "raised"}
    /\ LET results == ShapeResults(loc.faces, cres.value)
           fin == IF cres.kind = "raise"
                  THEN RecognizeExcept(events, loc.camera_entity, cres.err)
                  ELSE IF results.kind = "raise"
                  THEN RecognizeExcept(events, loc.camera_entity, results.err)
                  ELSE [events |-> Fire(events, RecognitionResult,
                                        [camera_entity |-> loc.camera_entity,
                                         faces_detected |-> Len(loc.faces.v),
                                         identifications |-> results.value]),
                        outcome |-> Return(JNone)]
       IN  /\ events' = fin.events
           /\ outcome' = fin.outcome
    /\ spc' = "done"
    /\ UNCHANGED <<parked, contended, tasks, registered, client, hass_data, clientVars, svc, loc>>
    /\ Track

(* services.py: async_create_person_group                                  *)

GroupManagement == DOMAIN_NAME \o "_group_management"

\* the two except clauses of async_create_person_group
CreateGroupExcept(fired, person_group_id, err) ==
    IF err.exc = "AzureFaceAPIError"
    THEN [events |-> Fire(fired, GroupManagement,
                          [person_group_id |-> person_group_id,
                           action |-> "group_created", error |-> err.message]),
          outcome |-> Raise(HomeAssistantError("Azure Face API error: " \o err.message))]
    ELSE [events |-> fired,
          outcome |-> Raise(HomeAssistantError("Group creation failed: " \o err.message))]

\* async_create_person_group up to the call of create_person_group: the id
\* and the name of the service call go to the client as they are
CreateGroupStart ==
    /\ Idle
    /\ \E person_group_id \in GroupIdInputs, name \in GroupNameInputs :
         LET entry == FirstEntry
             fin == CreateGroupExcept(<<>>, person_group_id, entry.err)
         IN  /\ svc' = "create_person_group"
             /\ loc' = [NoLoc EXCEPT !.person_group_id = person_group_id]
             /\ IF entry.kind = "raise"
                THEN /\ spc' = "done"
                     /\ events' = fin.events
                     /\ outcome' = fin.outcome
                     /\ call' = NoCall /\ cpc' = "idle" /\ cres' = Pending
                     /\ reply' = NoReply
                     /\ UNCHANGED client
                ELSE /\ spc' = "create"
                     /\ events' = <<>>
                     /\ outcome' = Pending
                     /\ client' = entry.value.client
                     /\ BeginOp([NewCall("create_person_group") EXCEPT
                                    !.person_group_id = person_group_id,
                                    !.name = name])
    /\ wire' = <<>>
    /\ mr_calls' = 0
    /\ UNCHANGED <<hass_data, parked, contended, tasks, registered>>
    /\ Track

\* async_create_person_group from the result of create_person_group to its end
CreateGroupEnd ==
    /\ svc = "create_person_group" /\ spc = "create"
    /\ cpc \in {"returned", "raised"}
    /\ LET fin == IF cres.kind = "raise"
                  THEN CreateGroupExcept(events, loc.person_group_id, cres.err)
                  ELSE [events |-> Fire(events, GroupManagement,
                                        [person_group_id |-> loc.person_group_id,
                                         action |-> "group_created",
                                         name |-> call.name]),
                        outcome |-> Return(JNone)]
       IN  /\ events' = fin.events
           /\ outcome' = fin.outcome
    /\ spc' = "done"
    /\ UNCHANGED <<parked, contended, tasks, registered, client, hass_data, clientVars, svc, loc>>
    /\ Track

(* services.py: async_train_person                                         *)

TrainingResult == DOMAIN_NAME \o "_training_result"

Absent == [kind |-> "absent"]

\* the image each source holds, told apart by its format
SourceImage(format) == [len |-> MAX_IMAGE_SIZE - 1, format |-> format, intact |-> TRUE]

\* image_data of the call: absent, base64 text of an image, text that
\* b64decode rejects
ImageDataInputs ==
    { Absent,
      [kind |-> "ok", image |-> SourceImage("JPEG")],
      [kind |-> "bad", error |-> "Incorrect padding"] }

\* image_path of the call: absent, a file that can be read, one that cannot
ImagePathInputs ==
    { Absent,
      [kind |-> "ok", image |-> SourceImage("PNG"), path |-> "/config/www/face.png"],
      [kind |-> "bad", path |-> "/config/www/gone.png",
       error |-> "[Errno 2] No such file or directory: '/config/www/gone.png'"] }

\* image_url of the call: absent, a url answered with 200 and an image, one
\* answered with 404, one whose host does not answer
ImageUrlInputs ==
    { Absent,
      [kind |-> "ok", image |-> SourceImage("GIF"), url |-> "http://cam.local/face.gif"],
      [kind |-> "bad", url |-> "http://cam.local/gone.gif"],
      [kind |-> "down", url |-> "http://gone.local/face.gif",
       error |-> "Cannot connect to host gone.local:80"] }

\* the two except clauses of async_train_person
TrainPersonExcept(fired, person_id, err) ==
    IF err.exc = "AzureFaceAPIError"
    THEN [events |-> Fire(fired, TrainingResult,
                          [person_id |-> person_id, action |-> "face_added",
                           error |-> err.message]),
          outcome |-> Raise(HomeAssistantError("Azure Face API error: " \o err.message))]
    ELSE [events |-> fired,
          outcome |-> Raise(HomeAssistantError("Person training failed: " \o err.message))]

\* async_train_person up to its first suspension: the client and the group
\* are read from the registry, then the download of image_url begins
TrainPersonStart ==
    /\ Idle
    /\ \E image_url \in ImageUrlInputs \ {[kind |-> "absent"]} :
         LET entry == FirstEntry
             fin == TrainPersonExcept(<<>>, "p1", entry.err)
         IN  /\ svc' = "train_person"
             /\ IF entry.kind = "raise"
                THEN /\ spc' = "done"
                     /\ events' = fin.events
                     /\ outcome' = fin.outcome
                     /\ loc' = [NoLoc EXCEPT !.image_url = image_url]
                     /\ UNCHANGED client
                ELSE /\ spc' = "download"
                     /\ events' = <<>>
                     /\ outcome' = Pending
                     /\ loc' = [NoLoc EXCEPT !.image_url = image_url,
                                   !.person_group_id = entry.value.person_group_id]
                     /\ client' = entry.value.client
    /\ call' = NoCall /\ cpc' = "idle" /\ cres' = Pending /\ reply' = NoReply
    /\ wire' = <<>>
    /\ mr_calls' = 0
    /\ UNCHANGED <<hass_data, parked, contended, tasks, registered>>
    /\ Track

\* async_train_person from the result of add_person_face to its end
TrainPersonEnd ==
    /\ svc = "train_person" /\ spc = "add_face"
    /\ cpc \in {"returned", "raised"}
    /\ LET persisted_face_id == Subscript(cres.value, "persistedFaceId")
           fin == IF cres.kind = "raise"
                  THEN TrainPersonExcept(events, call.person_id, cres.err)
                  ELSE IF persisted_face_id.kind = "raise"
                  THEN TrainPersonExcept(events, call.person_id, persisted_face_id.err)
                  ELSE [events |-> Fire(events, TrainingResult,
                                        [person_id |-> call.person_id,
                                         persisted_face_id |-> persisted_face_id.value,
                                         action |-> "face_added"]),
                        outcome |-> Return(JNone)]
       IN  /\ events' = fin.events
           /\ outcome' = fin.outcome
    /\ spc' = "done"
    /\ UNCHANGED <<parked, contended, tasks, registered, client, hass_data, clientVars, svc, loc>>
    /\ Track

(* services.py: async_create_person                                        *)

PersonManagement == DOMAIN_NAME \o "_person_management"

\* the two except clauses of async_create_person
CreatePersonExcept(fired, person_group_id, name, err) ==
    IF err.exc = "AzureFaceAPIError"
    THEN [events |-> Fire(fired, PersonManagement,
                          [person_group_id |-> person_group_id, name |-> name,
                           action |-> "person_created", error |-> err.message]),
          outcome |-> Raise(HomeAssistantError("Azure Face API error: " \o err.message))]
    ELSE [events |-> fired,
          outcome |-> Raise(HomeAssistantError("Person creation failed: " \o err.message))]

\* the person_group_id a handler works with when the call may leave it out:
\* the one of the call, else the one of the first entry
GroupOfCall(given_group, entry) ==
    IF given_group # "" \/ entry.kind = "raise" THEN given_group
    ELSE entry.value.person_group_id

\* async_create_person up to the call of create_person
CreatePersonStart ==
    /\ Idle
    /\ \E name \in {"Ann"}, given_group \in {"", "guests"} :
         LET entry == FirstEntry
             person_group_id == GroupOfCall(given_group, entry)
             fin == CreatePersonExcept(<<>>, person_group_id, name, entry.err)
         IN  /\ svc' = "create_person"
             /\ loc' = [NoLoc EXCEPT !.person_group_id = person_group_id]
             /\ IF entry.kind = "raise"
                THEN /\ spc' = "done"
                     /\ events' = fin.events
                     /\ outcome' = fin.outcome
                     /\ call' = NoCall /\ cpc' = "idle" /\ cres' = Pending
                     /\ reply' = NoReply
                     /\ UNCHANGED client
                ELSE /\ spc' = "create"
                     /\ events' = <<>>
                     /\ outcome' = Pending
                     /\ client' = entry.value.client
                     /\ BeginOp([NewCall("create_person") EXCEPT
                                    !.person_group_id = person_group_id,
                                    !.name = name])
    /\ wire' = <<>>
    /\ mr_calls' = 0
    /\ UNCHANGED <<hass_data, parked, contended, tasks, registered>>
    /\ Track

\* async_create_person from the result of create_person to its end
CreatePersonEnd ==
    /\ svc = "create_person" /\ spc = "create"
    /\ cpc \in {"returned", "raised"}
    /\ LET person_id == Subscript(cres.value, "personId")
           fin == IF cres.kind = "raise"
                  THEN CreatePersonExcept(events, loc.person_group_id, call.name, cres.err)
                  ELSE IF person_id.kind = "raise"
                  THEN CreatePersonExcept(events, loc.person_group_id, call.name,
                                          person_id.err)
                  ELSE [events |-> Fire(events, PersonManagement,
                                        [person_group_id |-> loc.person_group_id,
                                         person_id |-> person_id.value,
                                         name |-> call.name,
                                         action |-> "person_created"]),
                        outcome |-> Return(JNone)]
       IN  /\ events' = fin.events
           /\ outcome' = fin.outcome
    /\ spc' = "done"
    /\ UNCHANGED <<parked, contended, tasks, registered, client, hass_data, clientVars, svc, loc>>
    /\ Track

(* services.py: async_get_training_status                                  *)

TrainingStatus == DOMAIN_NAME \o "_training_status"

\* the two except clauses of async_get_training_status
TrainingStatusExcept(fired, person_group_id, err) ==
    IF err.exc = "AzureFaceAPIError"
    THEN [events |-> Fire(fired, TrainingStatus,
                          [person_group_id |-> person_group_id, error |-> err.message]),
          outcome |-> Raise(HomeAssistantError("Azure Face API error: " \o err.message))]
    ELSE [events |-> fired,
          outcome |-> Raise(HomeAssistantError("Getting training status failed: "
                                                  \o err.message))]

\* async_get_training_status up to the call of
\* get_person_group_training_status
TrainingStatusStart ==
    /\ Idle
    /\ \E given_group \in {"", "guests"} :
         LET entry == FirstEntry
             person_group_id == GroupOfCall(given_group, entry)
             fin == TrainingStatusExcept(<<>>, person_group_id, entry.err)
         IN  /\ svc' = "get_training_status"
             /\ loc' = [NoLoc EXCEPT !.person_group_id = person_group_id]
             /\ IF entry.kind = "raise"
                THEN /\ spc' = "done"
                     /\ events' = fin.events
                     /\ outcome' = fin.outcome
                     /\ call' = NoCall /\ cpc' = "idle" /\ cres' = Pending
                     /\ reply' = NoReply
                     /\ UNCHANGED client
                ELSE /\ spc' = "status"
                     /\ events' = <<>>
                     /\ outcome' = Pending
                     /\ client' = entry.value.client
                     /\ BeginOp([NewCall("get_person_group_training_status") EXCEPT
                                    !.person_group_id = person_group_id])
    /\ wire' = <<>>
    /\ mr_calls' = 0
    /\ UNCHANGED <<hass_data, parked, contended, tasks, registered>>
    /\ Track

\* async_get_training_status from the result of the client to its end
TrainingStatusEnd ==
    /\ svc = "get_training_status" /\ spc = "status"
    /\ cpc \in {"returned", "raised"}
    /\ LET status == Subscript(cres.value, "status")
           fin == IF cres.kind = "raise"
                  THEN TrainingStatusExcept(events, loc.person_group_id, cres.err)
                  ELSE IF status.kind = "raise"
                  THEN TrainingStatusExcept(events, loc.person_group_id, status.err)
                  ELSE [events |-> Fire(events, TrainingStatus,
                           [person_group_id |-> loc.person_group_id,
                            status |-> status.value,
                            created_time |-> DictGet(cres.value, "createdTime", JNone),
                            last_action_time |-> DictGet(cres.value, "lastActionTime", JNone),
                            last_successful_training_time |->
                                DictGet(cres.value, "lastSuccessfulTrainingTime", JNone),
                            message |-> DictGet(cres.value, "message", JNone)]),
                        outcome |-> Return(JNone)]
       IN  /\ events' = fin.events
           /\ outcome' = fin.outcome
    /\ spc' = "done"
    /\ UNCHANGED <<parked, contended, tasks, registered, client, hass_data, clientVars, svc, loc>>
    /\ Track

(* services.py: async_list_persons                                         *)

PersonsList == DOMAIN_NAME \o "_persons_list"

\* the two except clauses of async_list_persons
ListPersonsExcept(fired, person_group_id, err) ==
    IF err.exc = "AzureFaceAPIError"
    THEN [events |-> Fire(fired, PersonsList,
                          [person_group_id |-> person_group_id, error |-> err.message]),
          outcome |-> Raise(HomeAssistantError("Azure Face API error: " \o err.message))]
    ELSE [events |-> fired,
          outcome |-> Raise(HomeAssistantError("Listing persons failed: " \o err.message))]

\* async_list_persons up to the call of list_persons
ListPersonsStart ==
    /\ Idle
    /\ \E given_group \in {"", "guests"} :
         LET entry == FirstEntry
             person_group_id == GroupOfCall(given_group, entry)
             fin == ListPersonsExcept(<<>>, person_group_id, entry.err)
         IN  /\ svc' = "list_persons"
             /\ loc' = [NoLoc EXCEPT !.person_group_id = person_group_id]
             /\ IF entry.kind = "raise"
                THEN /\ spc' = "done"
                     /\ events' = fin.events
                     /\ outcome' = fin.outcome
                     /\ call' = NoCall /\ cpc' = "idle" /\ cres' = Pending
                     /\ reply' = NoReply
                     /\ UNCHANGED client
                ELSE /\ spc' = "persons"
                     /\ events' = <<>>
                     /\ outcome' = Pending
                     /\ client' = entry.value.client
                     /\ BeginOp([NewCall("list_persons") EXCEPT
                                    !.person_group_id = person_group_id])
    /\ wire' = <<>>
    /\ mr_calls' = 0
    /\ UNCHANGED <<hass_data, parked, contended, tasks, registered>>
    /\ Track

\* async_list_persons from the result of list_persons to its end: the event
\* is fired with whatever came back, then len(persons) is taken for the log
ListPersonsEnd ==
    /\ svc = "list_persons" /\ spc = "persons"
    /\ cpc \in {"returned", "raised"}
    /\ LET fired == Fire(events, PersonsList,
                         [person_group_id |-> loc.person_group_id,
                          persons |-> cres.value])
           count == PyLen(cres.value)
           fin == IF cres.kind = "raise"
                  THEN ListPersonsExcept(events, loc.person_group_id, cres.err)
                  ELSE IF count.kind = "raise"
                  THEN ListPersonsExcept(fired, loc.person_group_id, count.err)
                  ELSE [events |-> fired, outcome |-> Return(JNone)]
       IN  /\ events' = fin.events
           /\ outcome' = fin.outcome
    /\ spc' = "done"
    /\ UNCHANGED <<parked, contended, tasks, registered, client, hass_data, clientVars, svc, loc>>
    /\ Track

(* services.py: async_upload_person_image                                  *)

\* not any([image_data_b64, image_path, image_url])
NoSource(image_data, image_path, image_url) ==
    image_data.kind = "absent" /\ image_path.kind = "absent" /\ image_url.kind = "absent"

\* ResolveImage that looks at the file path first
ResolveImagePathFirst(image_data, image_path, image_url) ==
    LET got(source, r) == [read |-> <<source>>, result |-> r]
        image(i) == [kind |-> "return", image |-> i, err |-> NoExc]
        failed(m) == [kind |-> "raise", image |-> NoImage, err |-> HomeAssistantError(m)]
    IN  IF image_path.kind # "absent"
        THEN got("image_path",
                 IF image_path.kind = "ok" THEN image(image_path.image)
                 ELSE failed("Failed to read image file " \o image_path.path \o ": "
                                \o image_path.error))
        ELSE IF image_data.kind # "absent"
        THEN got("image_data",
                 IF image_data.kind = "ok" THEN image(image_data.image)
                 ELSE failed("Invalid base64 image data: " \o image_data.error))
        ELSE IF image_url.kind # "absent"
        THEN got("image_url", [kind |-> "download", image |-> NoImage, err |-> NoExc])
        ELSE [read |-> <<>>, result |-> image(NoImage)]

\* the if / elif / elif that fetches image_data: the source read and what
\* came of it; for image_url the download is still to be made
ResolveImage(image_data, image_path, image_url) ==
    LET got(source, r) == [read |-> <<source>>, result |-> r]
        image(i) == [kind |-> "return", image |-> i, err |-> NoExc]
        failed(m) == [kind |-> "raise", image |-> NoImage, err |-> HomeAssistantError(m)]
    IN  IF image_data.kind # "absent"
        THEN got("image_data",
                 IF image_data.kind = "ok" THEN image(image_data.image)
                 ELSE failed("Invalid base64 image data: " \o image_data.error))
        ELSE IF image_path.kind # "absent"
        THEN got("image_path",
                 IF image_path.kind = "ok" THEN image(image_path.image)
                 ELSE failed("Failed to read image file " \o image_path.path \o ": "
                                \o image_path.error))
        ELSE IF image_url.kind # "absent"
        THEN got("image_url", [kind |-> "download", image |-> NoImage, err |-> NoExc])
        ELSE [read |-> <<>>, result |-> image(NoImage)]

\* the two except clauses of async_upload_person_image
UploadExcept(fired, person_group_id, person_id, err) ==
    IF err.exc = "AzureFaceAPIError"
    THEN [events |-> Fire(fired, PersonManagement,
                          [person_group_id |-> person_group_id, person_id |-> person_id,
                           action |-> "image_uploaded", error |-> err.message]),
          outcome |-> Raise(HomeAssistantError("Azure Face API error: " \o err.message))]
    ELSE [events |-> fired,
          outcome |-> Raise(HomeAssistantError("Image upload failed: " \o err.message))]

\* the except clauses of the handler that downloads: async_train_person or
\* async_upload_person_image
DownloadExcept(fired, handler, person_group_id, person_id, err) ==
    IF handler = "train_person"
    THEN TrainPersonExcept(fired, person_id, err)
    ELSE UploadExcept(fired, person_group_id, person_id, err)

\* async_upload_person_image up to its first suspension: the check that a
\* source is given, the look-up of the client and of the group, then the
\* image decoded or read and the call of add_person_face, or the download
\* of image_url begun
UploadStart ==
    /\ Idle
    /\ \E image_data \in ImageDataInputs, image_path \in ImagePathInputs,
          image_url \in ImageUrlInputs, given_group \in {"", "guests"} :
         LET entry == FirstEntry
             person_group_id == IF given_group # "" \/ entry.kind = "raise"
                                THEN given_group ELSE entry.value.person_group_id
             resolved == ResolveImage(image_data, image_path, image_url)
             failure == IF entry.kind = "raise" THEN entry.err ELSE resolved.result.err
             fin == UploadExcept(<<>>, person_group_id, "p1", failure)
             sources == [NoLoc EXCEPT !.image_data = image_data,
                                      !.image_path = image_path,
                                      !.image_url = image_url,
                                      !.person_group_id = person_group_id]
             stop == /\ call' = NoCall /\ cpc' = "idle" /\ cres' = Pending
                     /\ reply' = NoReply
         IN  /\ svc' = "upload_person_image"
             /\ IF NoSource(image_data, image_path, image_url)
                THEN /\ stop /\ spc' = "done"
                     /\ UNCHANGED client
                     /\ loc' = [sources EXCEPT !.person_group_id = given_group]
                     /\ events' = <<>>
                     /\ outcome' = Raise(HomeAssistantError(
                            "Must provide either image_data, image_path, or image_url"))
                ELSE IF entry.kind = "raise"
                THEN /\ stop /\ spc' = "done"
                     /\ UNCHANGED client
                     /\ loc' = sources
                     /\ events' = fin.events
                     /\ outcome' = fin.outcome
                ELSE IF resolved.result.kind = "raise"
                THEN /\ stop /\ spc' = "done"
                     /\ UNCHANGED client
                     /\ loc' = [sources EXCEPT !.read = resolved.read]
                     /\ events' = fin.events
                     /\ outcome' = fin.outcome
                ELSE IF resolved.result.kind = "download"
                THEN /\ stop /\ spc' = "download"
                     /\ loc' = [sources EXCEPT !.read = resolved.read]
                     /\ events' = <<>>
                     /\ outcome' = Pending
                     /\ client' = entry.value.client
                ELSE /\ spc' = "add_face"
                     /\ loc' = [sources EXCEPT !.read = resolved.read]
                     /\ events' = <<>>
                     /\ outcome' = Pending
                     /\ client' = entry.value.client
                     /\ BeginOp([NewCall("add_person_face") EXCEPT
                                    !.image = resolved.result.image,
                                    !.person_group_id = person_group_id])
    /\ wire' = <<>>
    /\ mr_calls' = 0
    /\ UNCHANGED <<hass_data, parked, contended, tasks, registered>>
    /\ Track

\* session.get(image_url) is answered: with 200 the handler goes on to read
\* the body; any other status, or no answer, ends it
ImageDownloaded ==
    /\ svc \in {"upload_person_image", "train_person"} /\ spc = "download"
    /\ LET failure == IF loc.image_url.kind = "down"
                      THEN Exc("ClientConnectorError", "none", loc.image_url.error)
                      ELSE HomeAssistantError("Failed to download image from "
                                                  \o loc.image_url.url)
           fin == DownloadExcept(events, svc, loc.person_group_id, "p1", failure)
       IN  IF loc.image_url.kind = "ok"
           THEN /\ spc' = "read"
                /\ UNCHANGED <<events, outcome>>
           ELSE /\ spc' = "done"
                /\ events' = fin.events
                /\ outcome' = fin.outcome
    /\ UNCHANGED <<parked, contended, tasks, registered, client, hass_data, clientVars, svc, loc>>
    /\ Track

\* response.read() gives the image: the call of add_person_face
ImageRead ==
    /\ svc \in {"upload_person_image", "train_person"} /\ spc = "read"
    /\ spc' = "add_face"
    /\ BeginOp([NewCall("add_person_face") EXCEPT
                   !.image = loc.image_url.image,
                   !.person_group_id = loc.person_group_id])
    /\ UNCHANGED <<parked, contended, tasks, registered, client, hass_data, wire, mr_calls, svc, loc,
                   events, outcome>>
    /\ Track

\* response.read() raises (the transfer of the body breaks, or the timeout
\* expires): the handler leaves through its except Exception clause, with
\* no request to the service and no event
ImageReadFails ==
    /\ svc \in {"upload_person_image", "train_person"} /\ spc = "read"
    /\ \E e \in TextFailures :
         LET fin == DownloadExcept(events, svc, loc.person_group_id, "p1", e)
         IN  /\ events' = fin.events
             /\ outcome' = fin.outcome
    /\ spc' = "done"
    /\ UNCHANGED <<parked, contended, tasks, registered, client, hass_data, clientVars, svc, loc>>
    /\ Track

\* async_upload_person_image from the result of add_person_face to its end
UploadEnd ==
    /\ svc = "upload_person_image" /\ spc = "add_face"
    /\ cpc \in {"returned", "raised"}
    /\ LET persisted_face_id == Subscript(cres.value, "persistedFaceId")
           fin == IF cres.kind = "raise"
                  THEN UploadExcept(events, loc.person_group_id, call.person_id, cres.err)
                  ELSE IF persisted_face_id.kind = "raise"
                  THEN UploadExcept(events, loc.person_group_id, call.person_id,
                                    persisted_face_id.err)
                  ELSE [events |-> Fire(events, PersonManagement,
                                        [person_group_id |-> loc.person_group_id,
                                         person_id |-> call.person_id,
                                         persisted_face_id |-> persisted_face_id.value,
                                         action |-> "image_uploaded"]),
                        outcome |-> Return(JNone)]
       IN  /\ events' = fin.events
           /\ outcome' = fin.outcome
    /\ spc' = "done"
    /\ UNCHANGED <<parked, contended, tasks, registered, client, hass_data, clientVars, svc, loc>>
    /\ Track

(* azure_client.py: test_connection                                        *)

\* TestConnection that answers False for a rejected key only
TestConnectionAuthOnly(result) ==
    IF result.kind = "raise" /\ result.err.exc = "AzureFaceAPIError"
       /\ result.err.error_code = ERROR_AUTHENTICATION_FAILED
    THEN Return(JBool(FALSE))
    ELSE IF result.kind = "raise" THEN result
    ELSE Return(JBool(TRUE))

\* the try/except of test_connection around the result of list_person_groups
TestConnection(result) ==
    IF result.kind = "raise" /\ result.err.exc = "AzureFaceAPIError"
    THEN Return(JBool(FALSE))
    ELSE IF result.kind = "raise" THEN result
    ELSE Return(JBool(TRUE))

\* test_connection up to the call of list_person_groups
TestConnectionStart ==
    /\ Idle
    /\ \E endpoint \in Endpoints :
         /\ client' = AzureFaceClient(endpoint, "k")
         /\ BeginOp(NewCall("list_person_groups"))
    /\ svc' = "test_connection" /\ spc' = "list" /\ loc' = NoLoc
    /\ events' = <<>> /\ outcome' = Pending
    /\ wire' = <<>>
    /\ mr_calls' = 0
    /\ UNCHANGED <<hass_data, parked, contended, tasks, registered>>
    /\ Track

\* test_connection from the result of list_person_groups to its end
TestConnectionEnd ==
    /\ svc = "test_connection" /\ spc = "list"
    /\ cpc \in {"returned", "raised"}
    /\ outcome' = TestConnection(cres)
    /\ spc' = "done"
    /\ UNCHANGED <<parked, contended, tasks, registered, client, hass_data, clientVars, svc, loc, events>>
    /\ Track

(* config_flow.py: validate_input, ConfigFlow.async_step_user              *)

CannotConnect == Exc("CannotConnect", "none", "")
InvalidAuth == Exc("InvalidAuth", "none", "")

\* "authentication" in str(err).lower(), over the messages of the model
MentionsAuthentication(message) ==
    message = "Authentication failed. Please check your API key."

\* endpoint.split('//')[1].split('.')[0].title() inside the title
Title(endpoint) ==
    CASE endpoint = "https://eastus.api.cognitive.microsoft.com" -> "Azure Face (Eastus)"
      [] endpoint = "https://eastus.api.cognitive.microsoft.com/" -> "Azure Face (Eastus)"

\* validate_input from the result of test_connection on
ValidateInput(endpoint, tested) ==
    IF tested.kind = "return"
    THEN IF ~Truthy(tested.value)
         THEN Raise(InvalidAuth)
         ELSE Return(JDict(<<KV("title", JStr(Title(endpoint)))>>))
    ELSE IF tested.err.exc = "AzureFaceAPIError"
    THEN IF MentionsAuthentication(tested.err.message)
         THEN Raise(InvalidAuth)
         ELSE Raise(CannotConnect)
    ELSE tested

\* the try / except / else of async_step_user around validate_input: what
\* errors["base"] is after it, "" when the flow goes on to the next step
StepUserError(validated) ==
    IF validated.kind = "return" THEN ""
    ELSE IF validated.err.exc = "CannotConnect" THEN "cannot_connect"
    ELSE IF validated.err.exc = "InvalidAuth" THEN "invalid_auth"
    ELSE "unknown"

\* AZURE_REGIONS of const.py, the region of the model
AzureRegion(region) ==
    CASE region = "eastus" -> "https://eastus.api.cognitive.microsoft.com"

\* what the user step is submitted with: a region of the list, or "custom"
\* with or without an endpoint
UserInputs ==
    { [region |-> "eastus", endpoint |-> ""],
      [region |-> "custom", endpoint |-> "https://eastus.api.cognitive.microsoft.com/"],
      [region |-> "custom", endpoint |-> ""] }

\* the endpoint async_step_user validates with; "" when there is none
StepUserEndpoint(user_input) ==
    IF user_input.region = "custom" THEN user_input.endpoint
    ELSE AzureRegion(user_input.region)

\* self._data after a user step that went through
FlowData(user_input) ==
    [region |-> user_input.region, endpoint |-> StepUserEndpoint(user_input)]

\* the endpoint async_step_person_group builds its client with
PersonGroupEndpoint(data) ==
    IF data.region # "custom" THEN AzureRegion(data.region) ELSE data.endpoint

\* async_show_form(step_id, errors), with the options data_schema offers
FlowForm(step_id, base, options) ==
    JDict(<<KV("type", JStr("form")), KV("step_id", JStr(step_id)),
            KV("errors", IF base = "" THEN JDict(<<>>)
                         ELSE JDict(<<KV("base", JStr(base))>>)),
            KV("options", JList(options))>>)

\* async_create_entry(title, data)
FlowEntry(person_group_id, endpoint) ==
    JDict(<<KV("type", JStr("create_entry")),
            KV("title", JStr("Azure Face (" \o person_group_id \o ")")),
            KV("person_group_id", JStr(person_group_id)),
            KV("endpoint", JStr(endpoint))>>)

\* the early return of async_step_user reads data_schema before the
\* assignment further down
DataSchemaUnbound ==
    Exc("UnboundLocalError", "none",
        "cannot access local variable 'data_schema' where it is not associated with a value")

\* async_step_user with user_input, up to the call of list_person_groups
\* inside test_connection
StepUserStart ==
    /\ Idle
    /\ \E user_input \in UserInputs :
         LET endpoint == StepUserEndpoint(user_input)
         IN  /\ loc' = [NoLoc EXCEPT !.endpoint = endpoint, !.region = user_input.region]
             /\ IF endpoint = ""
                THEN /\ outcome' = Raise(DataSchemaUnbound)
                     /\ spc' = "done"
                     /\ call' = NoCall /\ cpc' = "idle" /\ cres' = Pending
                     /\ reply' = NoReply
                     /\ UNCHANGED client
                ELSE /\ outcome' = Pending
                     /\ spc' = "list"
                     /\ client' = AzureFaceClient(endpoint, "k")
                     /\ BeginOp(NewCall("list_person_groups"))
    /\ svc' = "step_user"
    /\ events' = <<>>
    /\ wire' = <<>>
    /\ mr_calls' = 0
    /\ UNCHANGED <<hass_data, parked, contended, tasks, registered>>
    /\ Track

\* async_step_user from the result of list_person_groups on: validate_input
\* ends, and the step shows its form again with the error or goes on into
\* async_step_person_group, up to its call of list_person_groups
StepUserValidated ==
    /\ svc = "step_user" /\ spc = "list"
    /\ cpc \in {"returned", "raised"}
    /\ LET validated == ValidateInput(loc.endpoint, TestConnection(cres))
           base == StepUserError(validated)
       IN  /\ loc' = [loc EXCEPT !.errors = base, !.validated = validated]
           /\ IF validated.kind = "raise"
              THEN /\ outcome' = Return(FlowForm("user", base, <<>>))
                   /\ spc' = "done"
                   /\ UNCHANGED <<client, clientVars>>
              ELSE /\ outcome' = Pending
                   /\ spc' = "groups"
                   /\ client' = AzureFaceClient(
                          PersonGroupEndpoint([region |-> loc.region,
                                               endpoint |-> loc.endpoint]), "k")
                   /\ BeginOp(NewCall("list_person_groups"))
                   /\ UNCHANGED <<wire, mr_calls>>
    /\ UNCHANGED <<parked, contended, tasks, registered, hass_data, svc, events>>
    /\ Track

(* config_flow.py: ConfigFlow.async_step_person_group                      *)

\* what the person group step is submitted with
PersonGroupInputs ==
    { [create_new_group |-> c, person_group_id |-> g, person_group_id_manual |-> m,
       group_name |-> n] :
         c \in BOOLEAN, g \in {"", "family"}, m \in {"", "family_2-A", "bad id!"},
         n \in {"", "Family"} }

\* self._data when the person group step is submitted
FlowDatas == { FlowData(u) : u \in { v \in UserInputs : StepUserEndpoint(v) # "" } }

\* person_group_id.replace("_", "").replace("-", "").isalnum(), over the ids
\* of the model
IsAlnumId(person_group_id) == person_group_id \in {"family", "family_2-A", "guests", "office"}

\* the checks of the submitted form: errors["base"], "" when all pass
PersonGroupError(user_input) ==
    IF user_input.create_new_group
    THEN IF user_input.person_group_id_manual = "" THEN "missing_person_group_id"
         ELSE IF ~IsAlnumId(user_input.person_group_id_manual)
         THEN "invalid_person_group_id"
         ELSE IF user_input.group_name = "" THEN "missing_group_name"
         ELSE ""
    ELSE IF user_input.person_group_id = "" THEN "missing_person_group_id"
    ELSE ""

\* the list comprehension over the groups list_person_groups returned; any
\* failure leaves no options
PersonGroupOptions(groups) ==
    IF groups.kind = "raise" THEN <<>>
    ELSE LET items == PyIter(groups.value)
             Option(group) ==
                 LET id == Subscript(group, "personGroupId")
                     name == Subscript(group, "name")
                 IN  IF id.kind = "raise" THEN id
                     ELSE IF name.kind = "raise" THEN name
                     ELSE Return(JDict(<<KV("value", id.value),
                                         KV("label", JStr(PyStr(name.value) \o " ("
                                                           \o PyStr(id.value) \o ")"))>>))
         IN  IF items.kind = "raise" THEN <<>>
             ELSE LET options == Collect([i \in 1..Len(items.value) |->
                                            Option(items.value[i])])
                  IN  IF options.kind = "raise" THEN <<>> ELSE options.value

\* async_step_person_group with user_input, up to its first request: the
\* PUT of create_person_group, or the list_person_groups of the form shown
\* again after a failed check; a chosen existing group ends the flow at once
StepPersonGroupStart ==
    /\ Idle
    /\ \E user_input \in PersonGroupInputs, data \in FlowDatas :
         LET base == PersonGroupError(user_input)
             endpoint == PersonGroupEndpoint(data)
         IN  /\ loc' = [NoLoc EXCEPT !.endpoint = endpoint, !.region = data.region,
                                     !.errors = base,
                                     !.person_group_id =
                                        IF user_input.create_new_group
                                        THEN user_input.person_group_id_manual
                                        ELSE user_input.person_group_id]
             /\ IF base # ""
                THEN /\ outcome' = Pending
                     /\ spc' = "groups"
                     /\ client' = AzureFaceClient(endpoint, "k")
                     /\ BeginOp(NewCall("list_person_groups"))
                ELSE IF user_input.create_new_group
                THEN /\ outcome' = Pending
                     /\ spc' = "create"
                     /\ client' = AzureFaceClient(endpoint, "k")
                     /\ BeginOp([NewCall("create_person_group") EXCEPT
                                   !.person_group_id = user_input.person_group_id_manual,
                                   !.name = user_input.group_name])
                ELSE /\ outcome' = Return(FlowEntry(user_input.person_group_id, endpoint))
                     /\ spc' = "done"
                     /\ call' = NoCall /\ cpc' = "idle" /\ cres' = Pending
                     /\ reply' = NoReply
                     /\ UNCHANGED client
    /\ svc' = "step_person_group"
    /\ events' = <<>>
    /\ wire' = <<>>
    /\ mr_calls' = 0
    /\ UNCHANGED <<hass_data, parked, contended, tasks, registered>>
    /\ Track

\* async_step_person_group from the result of create_person_group on: the
\* entry is created; after an AzureFaceAPIError the form is shown again,
\* which starts with list_person_groups; anything else raised leaves the step
StepPersonGroupCreated ==
    /\ svc = "step_person_group" /\ spc = "create"
    /\ cpc \in {"returned", "raised"}
    /\ IF cres.kind = "return"
       THEN /\ outcome' = Return(FlowEntry(loc.person_group_id, loc.endpoint))
            /\ spc' = "done"
            /\ UNCHANGED <<client, clientVars, loc>>
       ELSE IF cres.err.exc = "AzureFaceAPIError"
       THEN /\ outcome' = Pending
            /\ spc' = "groups"
            /\ loc' = [loc EXCEPT !.errors = "cannot_create_group"]
            /\ client' = AzureFaceClient(loc.endpoint, "k")
            /\ BeginOp(NewCall("list_person_groups"))
            /\ UNCHANGED <<wire, mr_calls>>
       ELSE /\ outcome' = cres
            /\ spc' = "done"
            /\ UNCHANGED <<client, clientVars, loc>>
    /\ UNCHANGED <<parked, contended, tasks, registered, hass_data, svc, events>>
    /\ Track

\* the form of the person group step, shown once list_person_groups has
\* returned or raised
StepPersonGroupShow ==
    /\ svc \in {"step_user", "step_person_group"} /\ spc = "groups"
    /\ cpc \in {"returned", "raised"}
    /\ outcome' = Return(FlowForm("person_group", loc.errors, PersonGroupOptions(cres)))
    /\ spc' = "done"
    /\ UNCHANGED <<parked, contended, tasks, registered, client, hass_data, clientVars, svc, loc, events>>
    /\ Track

(* __init__.py: async_setup_entry, async_unload_entry, async_reload_entry  *)

\* the config entries of the installation: entry.entry_id and entry.data
ConfigEntries ==
    { [entry_id |-> "entry1", endpoint |-> "https://eastus.api.cognitive.microsoft.com",
       api_key |-> "k", person_group_id |-> "family"],
      [entry_id |-> "entry2", endpoint |-> "https://eastus.api.cognitive.microsoft.com/",
       api_key |-> "k2", person_group_id |-> "office"] }

ConfigEntry(entry_id) == CHOOSE e \in ConfigEntries : e.entry_id = entry_id

ConfigEntryNotReady(message) == Exc("ConfigEntryNotReady", "none", message)

\* the entry ids in hass.data[DOMAIN], in the order of the dict
EntryIds(registry) == { registry[i].entry_id : i \in 1..Len(registry) }

\* hass.data[DOMAIN][entry.entry_id] = {...}: a key the dict has keeps its
\* place, a new key goes to the end
StoreEntry(registry, value) ==
    IF value.entry_id \in EntryIds(registry)
    THEN [i \in 1..Len(registry) |->
            IF registry[i].entry_id = value.entry_id THEN value ELSE registry[i]]
    ELSE Append(registry, value)

\* hass.data[DOMAIN].pop(entry.entry_id) on a dict that has the key
PopEntry(registry, entry_id) ==
    LET Others(v) == v.entry_id # entry_id
    IN  SelectSeq(registry, Others)

\* async_setup_entry that stores the entry before it looks at the test
SetupEntryStoreFirst(registry, services, entry, created, tested) ==
    LET stored == StoreEntry(registry, [entry_id |-> entry.entry_id,
                                        person_group_id |-> entry.person_group_id,
                                        client |-> created])
    IN  IF tested.kind = "raise" /\ tested.err.exc = "AzureFaceAPIError"
        THEN [registry |-> stored, services |-> services,
              outcome |-> Raise(ConfigEntryNotReady("Unable to connect to Azure Face API"))]
        ELSE IF tested.kind = "raise"
        THEN [registry |-> stored, services |-> services, outcome |-> tested]
        ELSE IF ~Truthy(tested.value)
        THEN [registry |-> stored, services |-> services,
              outcome |-> Raise(ConfigEntryNotReady("Unable to connect to Azure Face API"))]
        ELSE [registry |-> stored, services |-> TRUE, outcome |-> Return(JBool(TRUE))]

\* async_setup_entry from the result of test_connection on: the registry,
\* whether the services are registered, and what the call gives
SetupEntry(registry, services, entry, created, tested) ==
    IF tested.kind = "raise" /\ tested.err.exc = "AzureFaceAPIError"
    THEN [registry |-> registry, services |-> services,
          outcome |-> Raise(ConfigEntryNotReady("Unable to connect to Azure Face API"))]
    ELSE IF tested.kind = "raise"
    THEN [registry |-> registry, services |-> services, outcome |-> tested]
    ELSE IF ~Truthy(tested.value)
    THEN [registry |-> registry, services |-> services,
          outcome |-> Raise(ConfigEntryNotReady("Unable to connect to Azure Face API"))]
    ELSE [registry |-> StoreEntry(registry, [entry_id |-> entry.entry_id,
                                             person_group_id |-> entry.person_group_id,
                                             client |-> created]),
          services |-> TRUE,
          outcome |-> Return(JBool(TRUE))]

\* async_unload_entry: the registry after it and what the call gives
UnloadEntry(registry, entry_id) ==
    IF entry_id \in EntryIds(registry)
    THEN [registry |-> PopEntry(registry, entry_id), outcome |-> Return(JBool(TRUE))]
    ELSE [registry |-> registry,
          outcome |-> Raise(Exc("KeyError", "none", "'" \o entry_id \o "'"))]

\* async_setup_entry up to the call of list_person_groups inside test_connection
SetupEntryStart ==
    /\ Idle
    /\ \E entry \in ConfigEntries :
         /\ client' = AzureFaceClient(entry.endpoint, entry.api_key)
         /\ loc' = [NoLoc EXCEPT !.entry_id = entry.entry_id]
         /\ BeginOp(NewCall("list_person_groups"))
         /\ contended' = Meets(entry.entry_id)
    /\ svc' = "setup_entry" /\ spc' = "list"
    /\ events' = <<>> /\ outcome' = Pending
    /\ wire' = <<>>
    /\ mr_calls' = 0
    /\ UNCHANGED <<hass_data, parked, tasks, registered>>
    /\ Track

\* async_reload_entry has no return statement: it gives None when its
\* async_setup_entry returns and passes on what that raises
ReloadResult(setup) == IF setup.kind = "raise" THEN setup ELSE Return(JNone)

\* async_setup_entry from the result of list_person_groups to the entry
\* stored and the services registered, where it suspends in the registration
\* of the panel; called by the loader or as the second half of
\* async_reload_entry
SetupEntryEnd ==
    /\ svc \in {"setup_entry", "reload_entry"} /\ spc = "list"
    /\ cpc \in {"returned", "raised"}
    /\ LET fin == SetupEntry(hass_data, registered, ConfigEntry(loc.entry_id), client,
                             TestConnection(cres))
       IN  /\ hass_data' = fin.registry
           /\ registered' = fin.services
           /\ IF fin.outcome.kind = "raise"
              THEN outcome' = fin.outcome /\ spc' = "done"
              ELSE outcome' = Pending /\ spc' = "panel"
    /\ UNCHANGED <<parked, contended, tasks, client, clientVars, svc, loc, events>>
    /\ Track

\* what the awaits of async_register_panel raise when they fail: the
\* registration of the static path (line 66) is outside every try, and the
\* try around panel_iframe catches ImportError and AttributeError only
PanelFailures ==
    { Exc("RuntimeError", "none", "static path already registered"),
      Exc("ValueError", "none", "bad path") }

\* async_register_panel is through (what fails in its fallback is logged,
\* lines 87-100): async_setup_entry returns True
SetupEntryReturn ==
    /\ svc \in {"setup_entry", "reload_entry"} /\ spc = "panel"
    /\ outcome' = IF svc = "reload_entry"
                  THEN ReloadResult(Return(JBool(TRUE))) ELSE Return(JBool(TRUE))
    /\ spc' = "done"
    /\ UNCHANGED <<parked, contended, tasks, registered, client, hass_data, clientVars, svc, loc, events>>
    /\ Track

\* async_register_panel raises: async_setup_entry, and the async_reload_entry
\* that called it, end with that exception; the entry stored at 44-48 and
\* the services registered at 51 stay
SetupEntryPanelFails ==
    /\ svc \in {"setup_entry", "reload_entry"} /\ spc = "panel"
    /\ \E e \in PanelFailures : outcome' = ReloadResult(Raise(e))
    /\ spc' = "done"
    /\ UNCHANGED <<parked, contended, tasks, registered, client, hass_data, clientVars, svc, loc, events>>
    /\ Track

\* async_unload_entry, which has no await in it
UnloadEntryCall ==
    /\ Idle
    /\ \E entry \in ConfigEntries :
         LET fin == UnloadEntry(hass_data, entry.entry_id)
         IN  /\ hass_data' = fin.registry
             /\ outcome' = fin.outcome
             /\ loc' = [NoLoc EXCEPT !.entry_id = entry.entry_id]
             /\ contended' = Meets(entry.entry_id)
    /\ svc' = "unload_entry" /\ spc' = "done"
    /\ call' = NoCall /\ cpc' = "idle" /\ cres' = Pending /\ reply' = NoReply
    /\ events' = <<>>
    /\ wire' = <<>>
    /\ mr_calls' = 0
    /\ UNCHANGED <<client, parked, tasks, registered>>
    /\ Track

\* async_reload_entry: async_unload_entry, then async_setup_entry up to the
\* call of list_person_groups
ReloadEntryStart ==
    /\ Idle
    /\ \E entry \in ConfigEntries :
         LET unloaded == UnloadEntry(hass_data, entry.entry_id)
         IN  /\ hass_data' = unloaded.registry
             /\ loc' = [NoLoc EXCEPT !.entry_id = entry.entry_id]
             /\ contended' = Meets(entry.entry_id)
             /\ IF unloaded.outcome.kind = "raise"
                THEN /\ outcome' = unloaded.outcome
                     /\ spc' = "done"
                     /\ call' = NoCall /\ cpc' = "idle" /\ cres' = Pending
                     /\ reply' = NoReply
                     /\ UNCHANGED client
                ELSE /\ outcome' = Pending
                     /\ spc' = "list"
                     /\ client' = AzureFaceClient(entry.endpoint, entry.api_key)
                     /\ BeginOp(NewCall("list_person_groups"))
    /\ svc' = "reload_entry"
    /\ events' = <<>>
    /\ wire' = <<>>
    /\ mr_calls' = 0
    /\ UNCHANGED <<parked, tasks, registered>>
    /\ Track

(* services.py: async_train_group                                         *)

\* the person_group_id of the service call
ServiceGroupIds == {"family", "guests"}

\* the two except clauses of async_train_group: events and outcome after them
TrainExcept(fired, person_group_id, err) ==
    IF err.exc = "AzureFaceAPIError"
    THEN [events |-> Fire(fired, TrainingResult,
                          [person_group_id |-> person_group_id,
                           action |-> "group_trained", error |-> err.message]),
          outcome |-> Raise(HomeAssistantError("Azure Face API error: " \o err.message))]
    ELSE [events |-> fired,
          outcome |-> Raise(HomeAssistantError("Group training failed: " \o err.message))]

\* after the loop: the success event, then the handler returns
TrainSucceeded(fired, person_group_id) ==
    [events |-> Fire(fired, TrainingResult,
                     [person_group_id |-> person_group_id,
                      action |-> "group_trained", status |-> "succeeded"]),
     outcome |-> Return(JNone)]

\* TrainingFailed that never reads the message of the payload
TrainingFailedDefaultOnly(status) == HomeAssistantError("Training failed: Training failed")

\* the error raised in the loop for a status payload that says failed
TrainingFailed(status) ==
    HomeAssistantError("Training failed: "
                          \o PyStr(DictGet(status, "message", JStr("Training failed"))))

\* PollStep that takes a job that is running for one that is done
PollStepRunningIsDone(result) ==
    LET training_status == Subscript(result.value, "status")
        step(next, err) == [next |-> next, err |-> err]
    IN  IF result.kind = "raise" THEN step("raise", result.err)
        ELSE IF training_status.kind = "raise" THEN step("raise", training_status.err)
        ELSE IF training_status.value \in {JStr("succeeded"), JStr("running")}
        THEN step("break", NoExc)
        ELSE IF training_status.value = JStr("failed")
        THEN step("raise", TrainingFailed(result.value))
        ELSE step("sleep", NoExc)

\* PollStep that waits and polls again when the quota is exceeded
PollStepRetryOnQuota(result) ==
    LET training_status == Subscript(result.value, "status")
        step(next, err) == [next |-> next, err |-> err]
    IN  IF result.kind = "raise" /\ result.err.error_code = ERROR_QUOTA_EXCEEDED
        THEN step("sleep", NoExc)
        ELSE IF result.kind = "raise" THEN step("raise", result.err)
        ELSE IF training_status.kind = "raise" THEN step("raise", training_status.err)
        ELSE IF training_status.value = JStr("succeeded") THEN step("break", NoExc)
        ELSE IF training_status.value = JStr("failed")
        THEN step("raise", TrainingFailed(result.value))
        ELSE step("sleep", NoExc)

\* one pass of the loop on the result of get_person_group_training_status:
\* leave the loop, raise, or sleep and go round again
PollStep(result) ==
    LET training_status == Subscript(result.value, "status")
        step(next, err) == [next |-> next, err |-> err]
    IN  IF result.kind = "raise" THEN step("raise", result.err)
        ELSE IF training_status.kind = "raise" THEN step("raise", training_status.err)
        ELSE IF training_status.value = JStr("succeeded") THEN step("break", NoExc)
        ELSE IF training_status.value = JStr("failed")
        THEN step("raise", TrainingFailed(result.value))
        ELSE step("sleep", NoExc)

\* the statuses read so far, with the one of this result when it has one
Polled(polled, result) ==
    IF result.kind = "return" /\ Subscript(result.value, "status").kind = "return"
    THEN Append(polled, Subscript(result.value, "status").value)
    ELSE polled

\* async_train_group up to the call of train_person_group
TrainGroupStart ==
    /\ Idle
    /\ \E person_group_id \in ServiceGroupIds :
         LET entry == FirstEntry
             fin == TrainExcept(<<>>, person_group_id, entry.err)
         IN  /\ svc' = "train_group"
             /\ loc' = [NoLoc EXCEPT !.person_group_id = person_group_id]
             /\ IF entry.kind = "raise"
                THEN /\ spc' = "done"
                     /\ events' = fin.events
                     /\ outcome' = fin.outcome
                     /\ call' = NoCall /\ cpc' = "idle" /\ cres' = Pending
                     /\ reply' = NoReply
                     /\ UNCHANGED client
                ELSE /\ spc' = "train"
                     /\ events' = <<>>
                     /\ outcome' = Pending
                     /\ client' = entry.value.client
                     /\ BeginOp([NewCall("train_person_group") EXCEPT
                                    !.person_group_id = person_group_id])
    /\ wire' = <<>>
    /\ mr_calls' = 0
    /\ UNCHANGED <<hass_data, parked, contended, tasks, registered>>
    /\ Track

\* async_train_group from the result of train_person_group to the first poll
TrainGroupAfterStart ==
    /\ svc = "train_group" /\ spc = "train"
    /\ cpc \in {"returned", "raised"}
    /\ LET fin == TrainExcept(events, loc.person_group_id, cres.err)
       IN  IF cres.kind = "raise"
           THEN /\ spc' = "done"
                /\ events' = fin.events
                /\ outcome' = fin.outcome
                /\ UNCHANGED <<call, cpc, reply, cres>>
           ELSE /\ spc' = "poll"
                /\ BeginOp([NewCall("get_person_group_training_status") EXCEPT
                               !.person_group_id = loc.person_group_id])
                /\ UNCHANGED <<events, outcome>>
    /\ UNCHANGED <<parked, contended, tasks, registered, client, hass_data, wire, mr_calls, svc, loc>>
    /\ Track

\* one pass of the loop from the result of the poll: to the end of the
\* handler, or into asyncio.sleep(1)
TrainGroupAfterPoll ==
    /\ svc = "train_group" /\ spc = "poll"
    /\ cpc \in {"returned", "raised"}
    /\ LET step == PollStep(cres)
           fin == IF step.next = "break"
                  THEN TrainSucceeded(events, loc.person_group_id)
                  ELSE TrainExcept(events, loc.person_group_id, step.err)
       IN  IF step.next = "sleep"
           THEN spc' = "sleep" /\ UNCHANGED <<events, outcome>>
           ELSE spc' = "done" /\ events' = fin.events /\ outcome' = fin.outcome
    /\ loc' = [loc EXCEPT !.polled = Polled(loc.polled, cres)]
    /\ UNCHANGED <<parked, contended, tasks, registered, client, hass_data, clientVars, svc>>
    /\ Track

\* TrainGroupWake that gives the job up after two polls
TrainGroupWakeBounded ==
    /\ svc = "train_group" /\ spc = "sleep"
    /\ IF Len(loc.polled) >= 2
       THEN /\ spc' = "done"
            /\ outcome' = Raise(HomeAssistantError("Group training failed: timed out"))
            /\ UNCHANGED <<call, cpc, reply, cres>>
       ELSE /\ spc' = "poll"
            /\ outcome' = outcome
            /\ BeginOp([NewCall("get_person_group_training_status") EXCEPT
                           !.person_group_id = loc.person_group_id])
    /\ UNCHANGED <<parked, contended, tasks, registered, client, hass_data, wire, mr_calls, svc, loc, events>>
    /\ Track

\* asyncio.sleep(1) is over: the loop goes round and polls again
TrainGroupWake ==
    /\ svc = "train_group" /\ spc = "sleep"
    /\ Len(loc.polled) < MaxPolls
    /\ spc' = "poll"
    /\ BeginOp([NewCall("get_person_group_training_status") EXCEPT
                   !.person_group_id = loc.person_group_id])
    /\ UNCHANGED <<parked, contended, tasks, registered, client, hass_data, wire, mr_calls, svc, loc, events, outcome>>
    /\ Track

\* the two invocations that run concurrently on one client
TaskIds == {1, 2}

\* slot is the place of the task's request among those the session sent,
\* prior the number of invocations that had ended when this one began
NoFrame == [call |-> NoCall, pc |-> "idle", reply |-> NoReply, result |-> Pending,
            slot |-> 0, prior |-> 0]
NoTasks == [t \in TaskIds |-> NoFrame]

Init ==
    /\ client = AzureFaceClient("https://eastus.api.cognitive.microsoft.com", "k")
    /\ hass_data \in Registries
    /\ call = NoCall
    /\ cpc = "idle"
    /\ reply = NoReply
    /\ cres = Pending
    /\ wire = <<>>
    /\ mr_calls = 0
    /\ svc = "none"
    /\ spc = "none"
    /\ loc = NoLoc
    /\ events = <<>>
    /\ outcome = Pending
    /\ tasks = NoTasks
    /\ registered = TRUE
    /\ parked = NoParked
    /\ contended = {}
    /\ course = "fresh"

Next ==
    \/ DirectCall
    \/ DirectRequest
    \/ ValidateImage
    \/ SendRequest
    \/ ReceiveResponse
    \/ ReadText
    \/ ReadTextFails
    \/ RequestFails
    \/ RecognizeStart
    \/ RecognizeCamera
    \/ RecognizeAfterDetect
    \/ RecognizeAfterIdentify
    \/ TrainGroupStart
    \/ TrainGroupAfterStart
    \/ TrainGroupAfterPoll
    \/ TrainGroupWake
    \/ TestConnectionStart
    \/ TestConnectionEnd
    \/ CreateGroupStart
    \/ CreateGroupEnd
    \/ UploadStart
    \/ ImageDownloaded
    \/ ImageRead
    \/ ImageReadFails
    \/ UploadEnd
    \/ TrainPersonStart
    \/ TrainPersonEnd
    \/ CreatePersonStart
    \/ CreatePersonEnd
    \/ TrainingStatusStart
    \/ TrainingStatusEnd
    \/ ListPersonsStart
    \/ ListPersonsEnd
    \/ StepUserStart
    \/ StepUserValidated
    \/ StepPersonGroupStart
    \/ StepPersonGroupCreated
    \/ StepPersonGroupShow
    \/ SetupEntryStart
    \/ SetupEntryEnd
    \/ SetupEntryReturn
    \/ SetupEntryPanelFails
    \/ UnloadEntryCall
    \/ ReloadEntryStart
    \/ Switch
    \/ Deliver

Spec == Init /\ [][Next]_vars

\* the train_group service alone: its handler, the two client operations it
\* calls and the remote side
TrainGroupNext ==
    \/ TrainGroupStart
    \/ SendRequest
    \/ ReceiveResponse
    \/ ReadText
    \/ ReadTextFails
    \/ RequestFails
    \/ TrainGroupAfterStart
    \/ TrainGroupAfterPoll
    \/ TrainGroupWake
    \/ Deliver

\* the steps the event loop takes on its own once train_group is under way: a
\* coroutine that can run is run, a request is answered or fails (at the
\* latest when the total timeout of DEFAULT_TIMEOUT seconds expires), and a
\* sleep of one second ends
TrainGroupProgress ==
    \/ SendRequest
    \/ ReceiveResponse
    \/ ReadText
    \/ ReadTextFails
    \/ RequestFails
    \/ TrainGroupAfterStart
    \/ TrainGroupAfterPoll
    \/ TrainGroupWake

\* train_group calls under an event loop that never halts
TrainGroupSpec == Init /\ [][TrainGroupNext]_vars /\ WF_vars(TrainGroupProgress)

\* the integration after async_setup: hass.data[DOMAIN] is an empty dict and
\* no service is registered
LifecycleInit ==
    /\ client = AzureFaceClient("https://eastus.api.cognitive.microsoft.com", "k")
    /\ hass_data = <<>>
    /\ call = NoCall
    /\ cpc = "idle"
    /\ reply = NoReply
    /\ cres = Pending
    /\ wire = <<>>
    /\ mr_calls = 0
    /\ svc = "none"
    /\ spc = "none"
    /\ loc = NoLoc
    /\ events = <<>>
    /\ outcome = Pending
    /\ tasks = NoTasks
    /\ registered = FALSE
    /\ parked = NoParked
    /\ contended = {}
    /\ course = "fresh"

\* config entries are set up, unloaded and reloaded; two calls may be under
\* way at once, each suspended at its awaits
LifecycleNext ==
    \/ SetupEntryStart
    \/ ReloadEntryStart
    \/ SendRequest
    \/ ReceiveResponse
    \/ ReadText
    \/ ReadTextFails
    \/ RequestFails
    \/ SetupEntryEnd
    \/ SetupEntryReturn
    \/ SetupEntryPanelFails
    \/ UnloadEntryCall
    \/ Switch
    \/ Deliver

LifecycleSpec == LifecycleInit /\ [][LifecycleNext]_vars

(* azure_client.py: two invocations on one client.  Each invocation has   *)
(* its frame (arguments and local variables); the client and its session   *)
(* are shared.  An operation suspends twice in _make_request: in           *)
(* session.request until the response arrives, and in response.text().     *)

\* the calls made concurrently
ConcCalls ==
    { [NewCall("create_person_group") EXCEPT !.person_group_id = g] :
         g \in {"family", "guests"} }
    \cup { NewCall("get_person") }
    \cup { [NewCall("detect_faces") EXCEPT !.image = i] :
              i \in { [len |-> MAX_IMAGE_SIZE, format |-> "JPEG", intact |-> TRUE],
                      [len |-> MAX_IMAGE_SIZE, format |-> "TIFF", intact |-> TRUE] } }

\* what the remote side answers them with
ConcStatuses == {200, 401, 500}
ConcBodies == {"", "{}", "{\"error\":{\"message\":\"x\"}}", "I'm a teapot"}
ConcFailures == { Exc("ClientConnectorError", "none", "Cannot connect to host"),
                  Exc("TimeoutError", "none", "") }

\* TaskRequest with a count of the requests sent so far kept and sent along
TaskRequestCounted(c) ==
    [HttpRequest(RequestOf(c)) EXCEPT
        !.headers = Append(@, KV("X-Request-Count", Digit(Len(wire))))]

\* the request the operation hands to session.request, built from its
\* arguments and the attributes of the client
TaskRequest(c) == HttpRequest(RequestOf(c))

\* TaskReply that reads the response kept last on the client
TaskReplyShared(t) == reply

\* the response _make_request classifies: the one its own request got
TaskReply(t) == tasks[t].reply

\* how many invocations have ended
EndedTasks == Cardinality({ t \in TaskIds : tasks[t].pc \in {"returned", "raised"} })

\* an operation is called: it validates, builds its request and suspends in
\* session.request
ConcStart(t) ==
    /\ tasks[t].pc = "idle"
    /\ \E c \in ConcCalls :
         LET checked == IF FirstStep(c.op) = "validate" THEN _validate_image(c.image)
                        ELSE Return(JNone)
             frame == [NoFrame EXCEPT !.call = c, !.prior = EndedTasks]
         IN  IF checked.kind = "raise"
             THEN /\ tasks' = [tasks EXCEPT ![t] =
                                  [frame EXCEPT !.pc = "raised", !.result = checked]]
                  /\ wire' = wire
             ELSE /\ tasks' = [tasks EXCEPT ![t] =
                                  [frame EXCEPT !.pc = "await", !.slot = Len(wire) + 1]]
                  /\ wire' = Append(wire, TaskRequest(c))
    /\ UNCHANGED <<parked, contended, course, client, hass_data, call, cpc, reply, cres, mr_calls,
                   handlerVars, registered>>

\* the response to the request of the task arrives; the task suspends again
\* in response.text()
ConcReceive(t) ==
    /\ tasks[t].pc = "await"
    /\ \E status \in ConcStatuses, response_text \in ConcBodies :
         /\ tasks' = [tasks EXCEPT ![t].reply = Response(status, response_text),
                                   ![t].pc = "text"]
         /\ reply' = Response(status, response_text)
    /\ UNCHANGED <<parked, contended, course, client, hass_data, call, cpc, cres, wire, mr_calls,
                   handlerVars, registered>>

\* the request of the task fails below HTTP
ConcFail(t) ==
    /\ tasks[t].pc = "await"
    /\ \E e \in ConcFailures :
         LET result == OpResult(tasks[t].call.op, ExceptClientError(Raise(e)))
         IN  tasks' = [tasks EXCEPT ![t].reply = Failure(e), ![t].result = result,
                                    ![t].pc = "raised"]
    /\ UNCHANGED <<parked, contended, course, client, hass_data, call, cpc, reply, cres, wire, mr_calls,
                   handlerVars, registered>>

\* the text is there: _make_request classifies the response and the
\* operation ends
ConcClassify(t) ==
    /\ tasks[t].pc = "text"
    /\ LET result == OpResult(tasks[t].call.op,
                              ExceptClientError(HandleResponse(TaskReply(t).status,
                                                               TaskReply(t).text)))
       IN  tasks' = [tasks EXCEPT ![t].result = result,
                                  ![t].pc = IF result.kind = "raise" THEN "raised"
                                            ELSE "returned"]
    /\ UNCHANGED <<parked, contended, course, client, hass_data, call, cpc, reply, cres, wire, mr_calls,
                   handlerVars, registered>>

\* response.text() of the task raises: the operation ends with the network
\* error _make_request makes of an aiohttp.ClientError, or with the
\* exception itself
ConcTextFail(t) ==
    /\ tasks[t].pc = "text"
    /\ \E e \in TextFailures :
         LET result == OpResult(tasks[t].call.op, ExceptClientError(Raise(e)))
         IN  tasks' = [tasks EXCEPT ![t].reply = BodyFailure(TaskReply(t).status, e),
                                    ![t].result = result,
                                    ![t].pc = "raised"]
    /\ UNCHANGED <<parked, contended, course, client, hass_data, call, cpc, reply, cres, wire, mr_calls,
                   handlerVars, registered>>

ConcInit == Init /\ hass_data = <<>>

ConcNext ==
    \E t \in TaskIds :
        \/ ConcStart(t)
        \/ ConcReceive(t)
        \/ ConcFail(t)
        \/ ConcClassify(t)
        \/ ConcTextFail(t)

\* two invocations of client operations on one client, interleaved at will
ConcurrentSpec == ConcInit /\ [][ConcNext]_vars

(* Properties                                                              *)

\* the operation in progress has its result
OpDone == cpc \in {"returned", "raised"}

\* a response with this status was classified by _make_request
Answered == OpDone /\ reply.kind = "response"

\* cres is an AzureFaceAPIError with this tag
Fails(code) ==
    /\ cres.kind = "raise"
    /\ cres.err.exc = "AzureFaceAPIError"
    /\ cres.err.error_code = code

\* C1: a response with status 401 always fails with AzureFaceAPIError tagged
\* authentication_failed and one with status 429 with AzureFaceAPIError tagged
\* quota_exceeded, whatever the body (the body never shows in the message)
C1_AuthAndQuota ==
    /\ (Answered /\ reply.status = 401) =>
          /\ Fails("authentication_failed")
          /\ cres.err.message = "Authentication failed. Please check your API key."
    /\ (Answered /\ reply.status = 429) =>
          /\ Fails("quota_exceeded")
          /\ cres.err.message = "API quota exceeded. Please wait before retrying."

\* C1 witness: a 401 whose body is a JSON error object was classified
C1_Witness ==
    /\ Answered /\ reply.status = 401
    /\ reply.text = "{\"error\":{\"message\":\"x\"}}"
    /\ Fails("authentication_failed")

\* a response of the generic error branch: status >= 400 other than 401, 429
GenericError == Answered /\ reply.status >= 400 /\ reply.status \notin {401, 429}

\* bodies of the form {"error":{"message": m}} with the m they carry
MessageBodies ==
    { [text |-> "{\"error\":{\"message\":\"x\"}}", m |-> "x"],
      [text |-> "{\"error\":{\"code\":\"BadArgument\",\"message\":\"Invalid image\"}}",
       m |-> "Invalid image"] }

\* bodies that are not JSON
RawBodies == {"I'm a teapot", "<html>Bad Gateway</html>", ""}

\* C2 as stated: in the generic error branch the raised error has message m
\* for a body {"error":{"message": m}} and the raw text for a non-JSON body
C2_Original ==
    GenericError =>
       /\ \A b \in MessageBodies :
             reply.text = b.text => (Fails("api_error") /\ cres.err.message = b.m)
       /\ reply.text \in RawBodies =>
             (Fails("api_error") /\ cres.err.message = reply.text)

\* C2 amended: in the generic error branch the raised error has the message
\* "API error: " followed by m for a body {"error":{"message": m}}, and
\* "API error: " followed by the raw text for a non-JSON body
C2_Amended ==
    GenericError =>
       /\ \A b \in MessageBodies :
             reply.text = b.text =>
                (Fails("api_error") /\ cres.err.message = "API error: " \o b.m)
       /\ reply.text \in RawBodies =>
             (Fails("api_error") /\ cres.err.message = "API error: " \o reply.text)

\* C2 witness: a 418 with body {"error":{"message":"x"}} was classified
C2_Witness ==
    /\ GenericError /\ reply.status = 418
    /\ reply.text = "{\"error\":{\"message\":\"x\"}}"
    /\ cres.err.message = "API error: x"

\* C3: every response of the generic error branch results in an
\* AzureFaceAPIError tagged api_error, whatever the shape of the body
C3_AlwaysApiError == GenericError => Fails("api_error")

\* C4: every network-level failure of the request makes _make_request fail
\* with an AzureFaceAPIError tagged api_error and message "Network error: <detail>"
C4_NetworkError ==
    (OpDone /\ reply.kind = "failure") =>
       /\ Fails("api_error")
       /\ cres.err.message = "Network error: " \o reply.err.message

\* C5: every invocation of _make_request issues exactly one HTTP request,
\* whatever the outcome, so a client operation called on its own issues at
\* most one, and exactly one once it got as far as _make_request
C5_OneRequestPerCall ==
    /\ Len(wire) = mr_calls
    /\ svc = "none" => Len(wire) <= 1
    /\ (svc = "none" /\ (cpc = "await" \/ reply.kind # "none")) => Len(wire) = 1

\* C5 witness: an operation called on its own failed with quota_exceeded
\* after its one request
C5_Witness ==
    /\ svc = "none" /\ cpc = "raised" /\ reply.kind = "response" /\ reply.status = 429
    /\ Fails("quota_exceeded")
    /\ Len(wire) = 1 /\ mr_calls = 1

\* a buffer that is oversized, undecodable, broken or of an unsupported format
InvalidBuffer(image) ==
    \/ image.len > 6291456
    \/ image.format \notin {"JPEG", "PNG", "BMP", "GIF"}
    \/ ~image.intact

\* C6: detect_faces and add_person_face validate before they request: for a
\* buffer that fails validation no request is ever issued and the operation
\* raises AzureFaceAPIError tagged invalid_image
C6_ValidateBeforeRequest ==
    (call.op \in {"detect_faces", "add_person_face"} /\ InvalidBuffer(call.image)) =>
       /\ wire = <<>>
       /\ cpc \in {"validate", "raised"}
       /\ cpc = "raised" => Fails("invalid_image")

\* C6 witness: add_person_face raised invalid_image for an unsupported format
\* with nothing sent
C6_Witness ==
    /\ call.op = "add_person_face" /\ cpc = "raised"
    /\ call.image.format = "WEBP" /\ call.image.intact
    /\ Fails("invalid_image") /\ wire = <<>>

\* the image-carrying operation is past _validate_image
Validated == call.op \in {"detect_faces", "add_person_face"} /\ cpc # "validate"

\* the operation raised before any request went out
RejectedLocally == cpc = "raised" /\ reply.kind = "none" /\ wire = <<>>

\* C7: a buffer longer than 6*1024*1024 bytes is rejected with invalid_image
\* by the size check whatever its content; a buffer of that length or less is
\* not rejected by the size check, and passes when its content is sound
C7_SizeCheck ==
    Validated =>
       /\ call.image.len > 6291456 =>
             /\ Fails("invalid_image")
             /\ cres.err.message = "Image size exceeds maximum of 6.0MB"
             /\ wire = <<>>
       /\ (call.image.len <= 6291456 /\ RejectedLocally) =>
             cres.err.message # "Image size exceeds maximum of 6.0MB"
       /\ (call.image.len <= 6291456 /\ ~InvalidBuffer(call.image)) => ~RejectedLocally

\* C7 witness: a sound buffer of exactly the maximum length passed validation
C7_Witness ==
    /\ Validated /\ call.image.len = 6291456
    /\ call.image.format = "GIF" /\ call.image.intact
    /\ cpc = "await" /\ Len(wire) = 1

\* C8: for a structurally valid image of a format outside the allow-list the
\* error that reaches the caller names the detected format
C8_FormatNamed ==
    (/\ call.op \in {"detect_faces", "add_person_face"} /\ cpc = "raised"
     /\ call.image.len <= 6291456 /\ call.image.intact
     /\ call.image.format \in {"TIFF", "WEBP"}) =>
       /\ Fails("invalid_image")
       /\ cres.err.message = "Unsupported image format: " \o call.image.format
                                \o ". Supported formats: JPEG, PNG, BMP, GIF"

\* the recognize handler ended right after detect_faces returned this list
EndedAfterDetect ==
    /\ svc = "recognize_face" /\ spc = "done"
    /\ call.op = "detect_faces" /\ cpc = "returned"
    /\ cres.value.t = "list"

\* the one event of a short-circuited recognition
ShortCircuitEvent(count, tag) ==
    [event_type |-> "azure_face_recognition_result",
     data |-> [camera_entity |-> loc.camera_entity, faces_detected |-> count,
               identifications |-> <<>>, error |-> tag]]

\* no request to the identify endpoint is on the wire
NoIdentifyRequest ==
    \A i \in 1..Len(wire) :
        wire[i].url # "https://eastus.api.cognitive.microsoft.com/face/v1.0/identify"

\* C9: identify_faces is called only when detect_faces returned exactly one
\* face; with zero faces the handler fires one event tagged no_face_detected
\* with faces_detected 0, with two or more one event tagged multiple_faces
\* with the count, and returns normally without a call of identify_faces
C9_Guards ==
    /\ (svc = "recognize_face" /\ (call.op = "identify_faces" \/ ~NoIdentifyRequest)) =>
          (loc.faces.t = "list" /\ Len(loc.faces.v) = 1)
    /\ (EndedAfterDetect /\ Len(cres.value.v) = 0) =>
          /\ events = <<ShortCircuitEvent(0, "no_face_detected")>>
          /\ outcome.kind = "return"
          /\ NoIdentifyRequest
    /\ (EndedAfterDetect /\ Len(cres.value.v) >= 2) =>
          /\ events = <<ShortCircuitEvent(Len(cres.value.v), "multiple_faces")>>
          /\ outcome.kind = "return"
          /\ NoIdentifyRequest

\* C9 witness: two faces were detected and the handler returned after the
\* multiple_faces event
C9_Witness ==
    /\ EndedAfterDetect /\ Len(cres.value.v) = 2
    /\ Len(events) = 1 /\ events[1].data.error = "multiple_faces"
    /\ events[1].data.faces_detected = 2
    /\ outcome.kind = "return"

\* the identify response is one entry for the detected face, with candidates
\* that each carry personId and confidence
OneEntryForTheFace ==
    /\ svc = "recognize_face" /\ spc = "done"
    /\ call.op = "identify_faces" /\ cpc = "returned"
    /\ cres.value.t = "list" /\ Len(cres.value.v) = 1
    /\ cres.value.v[1].t = "dict"
    /\ HasKey(cres.value.v[1], "faceId")
    /\ Item(cres.value.v[1], "faceId") = Item(loc.faces.v[1], "faceId")
    /\ HasKey(cres.value.v[1], "candidates")

\* the (personId, confidence) pairs of the entry, in the order of the response
PairsOf(entry) ==
    [i \in 1..Len(Item(entry, "candidates").v) |->
        [person_id |-> Item(Item(entry, "candidates").v[i], "personId"),
         confidence |-> Item(Item(entry, "candidates").v[i], "confidence")]]

\* C10: with exactly one face and an identify response of one entry for it,
\* the fired result has faces_detected 1 and one identification whose
\* candidates are exactly the pairs of the response, in order, paired with
\* the attributes of that face
C10_ExactCandidates ==
    OneEntryForTheFace =>
       /\ Len(events) = 1
       /\ events[1].event_type = "azure_face_recognition_result"
       /\ events[1].data.faces_detected = 1
       /\ Len(events[1].data.identifications) = 1
       /\ events[1].data.identifications[1].face_id = Item(loc.faces.v[1], "faceId")
       /\ events[1].data.identifications[1].candidates = PairsOf(cres.value.v[1])
       /\ events[1].data.identifications[1].face_attributes =
             (IF HasKey(loc.faces.v[1], "faceAttributes")
              THEN Item(loc.faces.v[1], "faceAttributes") ELSE JDict(<<>>))
       /\ outcome.kind = "return"

\* C10 witness: the result carries the two candidates p1 (0.92) and p2 (0.81)
\* of the response, in that order
C10_Witness ==
    /\ OneEntryForTheFace
    /\ Len(events) = 1
    /\ events[1].data.identifications[1].candidates =
          << [person_id |-> JStr("p1"), confidence |-> JFloat("0.92")],
             [person_id |-> JStr("p2"), confidence |-> JFloat("0.81")] >>
    /\ HasKey(loc.faces.v[1], "faceAttributes")

\* the service handlers of the model
Services == {"recognize_face", "train_person", "create_person_group", "train_group",
             "create_person", "upload_person_image", "get_training_status",
             "list_persons"}

\* a service handler ran to its end and raised
HandlerFailed == svc \in Services /\ spc = "done" /\ outcome.kind = "raise"

\* C11: every failure of a service handler is preceded by a result event on
\* the bus, also when the failure is not an AzureFaceAPIError (no image from
\* the camera, no configured entry, a training job that failed)
C11_EventBeforeEveryFailure == HandlerFailed => Len(events) >= 1

\* the recognize handler ended on an AzureFaceAPIError of this client operation
RecognizeAborted(op) ==
    /\ svc = "recognize_face" /\ spc = "done"
    /\ call.op = op /\ cpc = "raised"
    /\ cres.err.exc = "AzureFaceAPIError"

\* the one event of a recognition that failed with this error text
RecognizeErrorEvent(text) ==
    [event_type |-> "azure_face_recognition_result",
     data |-> [camera_entity |-> loc.camera_entity, faces_detected |-> 0,
               identifications |-> <<>>, error |-> text]]

\* C12: an AzureFaceAPIError of detect_faces or identify_faces ends the
\* recognize handler: it fires one result event with the error text and raises
\* HomeAssistantError with the original message in it; after a failed
\* detect_faces no identify request is made, and the failed call issued at
\* most the one request that failed
C12_ApiErrorAborts ==
    \A op \in {"detect_faces", "identify_faces"} :
        RecognizeAborted(op) =>
           /\ cres.err.error_code \in {"api_error", "authentication_failed",
                                       "quota_exceeded", "invalid_image"}
           /\ events = <<RecognizeErrorEvent(cres.err.message)>>
           /\ outcome.kind = "raise"
           /\ outcome.err.exc = "HomeAssistantError"
           /\ outcome.err.message = "Azure Face API error: " \o cres.err.message
           /\ op = "detect_faces" => (NoIdentifyRequest /\ Len(wire) <= 1)
           /\ op = "identify_faces" => Len(wire) = 2

\* C12 witness: identify_faces failed with quota_exceeded and the handler
\* raised after the error event
C12_Witness ==
    /\ RecognizeAborted("identify_faces")
    /\ cres.err.error_code = "quota_exceeded"
    /\ Len(events) = 1
    /\ events[1].data.error = "API quota exceeded. Please wait before retrying."
    /\ outcome.err.message =
          "Azure Face API error: API quota exceeded. Please wait before retrying."

\* the requests train_person_group and get_person_group_training_status make
\* for the group of the service call
StartRequestUrl ==
    client.endpoint \o "/face/v1.0/persongroups/" \o loc.person_group_id \o "/train"
PollRequestUrl ==
    client.endpoint \o "/face/v1.0/persongroups/" \o loc.person_group_id \o "/training"

\* how many status polls went out
PollsIssued == Cardinality({ i \in 1..Len(wire) : wire[i].url = PollRequestUrl })

TerminalStatuses == {JStr("succeeded"), JStr("failed")}

\* train_group ended on a status poll that came back with a terminal status
EndedOnTerminal ==
    /\ svc = "train_group" /\ spc = "done"
    /\ loc.polled # <<>>
    /\ loc.polled[Len(loc.polled)] \in TerminalStatuses

\* the event train_group fires after the loop
GroupTrainedEvent ==
    [event_type |-> "azure_face_training_result",
     data |-> [person_group_id |-> loc.person_group_id,
               action |-> "group_trained", status |-> "succeeded"]]

\* C13: train_group starts the training once and before any poll, then polls
\* until the first terminal status: when the first succeeded or failed is the
\* k-th status read, exactly k polls went out, none after it; it returns only
\* after succeeded, then with the group_trained success event fired; for
\* running, running, succeeded that is 3 polls
C13_TrainOncePollToTerminal ==
    svc = "train_group" =>
       /\ \A i \in 1..Len(wire) :
             /\ i = 1 => (wire[i].method = "POST" /\ wire[i].url = StartRequestUrl)
             /\ i > 1 => (wire[i].method = "GET" /\ wire[i].url = PollRequestUrl)
       /\ \A i \in 1..(Len(loc.polled) - 1) : loc.polled[i] \notin TerminalStatuses
       /\ EndedOnTerminal =>
             (PollsIssued = Len(loc.polled) /\ Len(wire) = 1 + Len(loc.polled))
       /\ (spc = "done" /\ outcome.kind = "return") =>
             /\ EndedOnTerminal
             /\ loc.polled[Len(loc.polled)] = JStr("succeeded")
             /\ events = <<GroupTrainedEvent>>
       /\ (spc = "done" /\ loc.polled = <<JStr("running"), JStr("running"), JStr("succeeded")>>) =>
             /\ PollsIssued = 3
             /\ outcome = Return(JNone)
             /\ events = <<GroupTrainedEvent>>

\* C13 witness: the statuses running, running, succeeded were read and the
\* handler returned after three polls and the success event
C13_Witness ==
    /\ svc = "train_group" /\ spc = "done"
    /\ loc.polled = <<JStr("running"), JStr("running"), JStr("succeeded")>>
    /\ PollsIssued = 3 /\ Len(wire) = 4
    /\ outcome.kind = "return"
    /\ events = <<GroupTrainedEvent>>

\* train_group ended on a status poll that came back with this body
EndedOnPoll(text) ==
    /\ svc = "train_group" /\ spc = "done"
    /\ call.op = "get_person_group_training_status" /\ cpc = "returned"
    /\ reply.text = text

\* some event on the bus reports the training as succeeded
SuccessEventFired == \E i \in 1..Len(events) : events[i] = GroupTrainedEvent

\* C14: a status poll that returns status failed makes train_group raise an
\* error whose message ends with the message field of the payload ("bad
\* data"), or with the default "Training failed" when the payload has none;
\* no success event is fired
C14_FailedStatusRaises ==
    /\ EndedOnPoll("{\"status\":\"failed\",\"message\":\"bad data\"}") =>
          /\ outcome.kind = "raise"
          /\ outcome.err.exc = "HomeAssistantError"
          /\ outcome.err.message = "Group training failed: Training failed: bad data"
          /\ ~SuccessEventFired
    /\ EndedOnPoll("{\"status\":\"failed\"}") =>
          /\ outcome.kind = "raise"
          /\ outcome.err.exc = "HomeAssistantError"
          /\ outcome.err.message = "Group training failed: Training failed: Training failed"
          /\ ~SuccessEventFired
    /\ (EndedOnTerminal /\ loc.polled[Len(loc.polled)] = JStr("failed")) =>
          (outcome.kind = "raise" /\ ~SuccessEventFired)

\* C14 witness: the second poll said failed with the message "bad data" and
\* the handler raised with that message
C14_Witness ==
    /\ EndedOnPoll("{\"status\":\"failed\",\"message\":\"bad data\"}")
    /\ loc.polled = <<JStr("running"), JStr("failed")>>
    /\ outcome.kind = "raise"
    /\ outcome.err.message = "Group training failed: Training failed: bad data"
    /\ events = <<>>

\* train_group has polled, and has read a status from every poll it issued,
\* none terminal
OnlyNonTerminalRead ==
    /\ svc = "train_group"
    /\ loc.polled # <<>>
    /\ PollsIssued = Len(loc.polled)
    /\ \A i \in 1..Len(loc.polled) : loc.polled[i] \notin TerminalStatuses

\* the poll of train_group just returned a payload with a terminal status
TerminalReturned ==
    /\ svc = "train_group" /\ spc = "poll" /\ cpc = "returned"
    /\ Subscript(cres.value, "status").kind = "return"
    /\ Subscript(cres.value, "status").value \in TerminalStatuses

\* C15: the poll loop of train_group has no bound of its own: as long as every
\* poll returned a non-terminal status (running, notstarted or anything else)
\* the handler has not ended, however many polls that makes, and each sleep
\* is followed by exactly one more poll; once a poll returns succeeded or
\* failed the handler ends
C15_UnboundedLoop ==
    /\ [](OnlyNonTerminalRead => spc # "done")
    /\ [](svc = "train_group" => PollsIssued <= Len(loc.polled) + 1)
    /\ (svc = "train_group" /\ spc = "sleep" /\ Len(loc.polled) < MaxPolls)
          ~> (svc = "train_group" /\ spc = "poll" /\ cpc = "await"
              /\ PollsIssued = Len(loc.polled) + 1)
    /\ TerminalReturned ~> (svc = "train_group" /\ spc = "done")

\* C15 witness: after MaxPolls polls that each said the job is not over the
\* handler is still in its loop
C15_Witness ==
    /\ OnlyNonTerminalRead
    /\ Len(loc.polled) = MaxPolls
    /\ loc.polled[1] = JStr("running") /\ loc.polled[2] = JStr("notstarted")
    /\ loc.polled[MaxPolls] = JStr("paused")
    /\ spc = "sleep"

\* the last request of the invocation was answered with status 429
Got429 == reply.kind = "response" /\ reply.status = 429

\* C16: nothing is retried after a 429: the client operation that got it has
\* raised quota_exceeded, no further request goes out in the invocation, and
\* the service handler that made the call ends with a failure as its next
\* step; so a 429 on the start call or on a poll of train_group ends the loop
C16_NoRetryAfter429 ==
    [][Got429 =>
          /\ cpc = "raised" /\ Fails("quota_exceeded")
          /\ \/ wire' = wire
             \/ Finished /\ cpc' = "idle" /\ wire' = <<>>
          /\ mr_calls' <= mr_calls
          /\ (svc \in Services /\ spc # "done") =>
                (svc' = svc /\ spc' = "done" /\ outcome'.kind = "raise" /\ call' = call)
          /\ (svc \in Services /\ spc = "done") => outcome.kind = "raise"]_vars

\* C16 witness: the second status poll of train_group got a 429 and the
\* handler failed with three requests made in all
C16_Witness ==
    /\ Got429
    /\ svc = "train_group" /\ spc = "done"
    /\ loc.polled = <<JStr("running")>>
    /\ Len(wire) = 3 /\ PollsIssued = 2
    /\ outcome.kind = "raise"
    /\ outcome.err.message =
          "Azure Face API error: API quota exceeded. Please wait before retrying."

\* test_connection ran to its end
ConnectionTested == svc = "test_connection" /\ spc = "done"

\* C17: test_connection makes one list_person_groups call; it returns False
\* when that call raised an AzureFaceAPIError, whatever its tag, and True when
\* the call completed; no AzureFaceAPIError ever leaves test_connection
C17_TestConnection ==
    ConnectionTested =>
       /\ Len(wire) = 1
       /\ wire[1].method = "GET"
       /\ wire[1].url = client.endpoint \o "/face/v1.0/persongroups"
       /\ \A code \in {"api_error", "authentication_failed", "quota_exceeded"} :
             Fails(code) => outcome = Return(JBool(FALSE))
       /\ cpc = "returned" => outcome = Return(JBool(TRUE))
       /\ ~(outcome.kind = "raise" /\ outcome.err.exc = "AzureFaceAPIError")

\* C17 witness: list_person_groups raised api_error on a 500 and
\* test_connection returned False
C17_Witness ==
    /\ ConnectionTested
    /\ reply.kind = "response" /\ reply.status = 500
    /\ Fails("api_error")
    /\ outcome = Return(JBool(FALSE))

\* a response with status < 400 came back to an operation that hands the
\* result of _make_request on as it is
SuccessPassedOn ==
    /\ Answered /\ reply.status < 400
    /\ call.op \notin {"create_person_group", "train_person_group"}

\* JSON bodies with the value each stands for
ParsedBodies ==
    { [text |-> "{}", value |-> JDict(<<>>)],
      [text |-> "[]", value |-> JList(<<>>)],
      [text |-> "null", value |-> JNone],
      [text |-> "5", value |-> JNum("5")],
      [text |-> "\"oops\"", value |-> JStr("oops")],
      [text |-> "{\"status\":\"running\"}",
       value |-> JDict(<<KV("status", JStr("running"))>>)],
      [text |-> "{\"error\":{\"message\":\"x\"}}",
       value |-> JDict(<<KV("error", JDict(<<KV("message", JStr("x"))>>))>>)],
      [text |-> "[{\"faceId\":\"f1\"}]",
       value |-> JList(<<JDict(<<KV("faceId", JStr("f1"))>>)>>)] }

\* C18: a response with status < 400 and a non-empty JSON body makes
\* _make_request return the value the body stands for, and one with an empty
\* body makes it return the empty dict
C18_SuccessBody ==
    SuccessPassedOn =>
       /\ reply.text = "" => cres = Return(JDict(<<>>))
       /\ \A b \in ParsedBodies : reply.text = b.text => cres = Return(b.value)
       /\ (reply.text # "" /\ reply.text \notin NonJsonTexts) =>
             (cres.kind = "return" /\ WireText(cres.value) = reply.text)

\* C18 witness: a 202 with the body {"status":"running"} came back as that dict
C18_Witness ==
    /\ SuccessPassedOn /\ reply.status = 202
    /\ reply.text = "{\"status\":\"running\"}"
    /\ cres = Return(JDict(<<KV("status", JStr("running"))>>))

\* C18 second case reached: an empty 200 came back as the empty dict
C18_EmptyReached ==
    SuccessPassedOn /\ reply.status = 200 /\ reply.text = "" /\ cres = Return(JDict(<<>>))

\* the value of a header of a request, "(absent)" when it has none of the name
Header(r, name) ==
    IF \E i \in 1..Len(r.headers) : r.headers[i].k = name
    THEN r.headers[CHOOSE i \in 1..Len(r.headers) : r.headers[i].k = name].val
    ELSE "(absent)"

\* the kind of body the call in progress sends
BodyKind ==
    CASE call.op \in {"identify_faces", "create_person_group", "create_person"} -> "dict"
      [] call.op \in {"detect_faces", "add_person_face"} -> "bytes"
      [] call.op = "_make_request" -> call.data.kind
      [] OTHER -> "none"

\* the bytes the call in progress sends
BodyBytes == IF call.op = "_make_request" THEN call.data.image ELSE call.image

\* the request of the call in progress has just been issued
JustRequested == cpc = "await" /\ wire # <<>>

\* the body of the request follows the body of the call: a dict goes out as
\* its JSON text, bytes go out unchanged, no body as none
BodyFollows(r) ==
    /\ BodyKind = "dict" =>
          /\ r.data.kind = "bytes"
          /\ call.op = "_make_request" => r.data.text = "{\"name\": \"Family\"}"
          /\ (call.op = "create_person" /\ call.user_data = "") =>
                r.data.text = "{\"name\": \"" \o call.name \o "\"}"
          /\ (call.op = "create_person_group" /\ call.name = "Family") =>
                r.data.text = "{\"name\": \"Family\", \"recognitionModel\": \"recognition_04\"}"
    /\ BodyKind = "bytes" => (r.data.kind = "bytes" /\ r.data.image = BodyBytes)
    /\ BodyKind = "none" => r.data.kind = "none"

\* C19 as stated: every request carries the key header with the api_key of
\* the client, also when the caller passed extra headers, and its Content-Type
\* follows the body: application/json for a dict, application/octet-stream
\* for bytes, none for an absent body
C19_Original ==
    JustRequested =>
       LET r == wire[Len(wire)]
       IN  /\ Header(r, "Ocp-Apim-Subscription-Key") = client.api_key
           /\ BodyFollows(r)
           /\ BodyKind = "dict" => Header(r, "Content-Type") = "application/json"
           /\ BodyKind = "bytes" => Header(r, "Content-Type") = "application/octet-stream"
           /\ BodyKind = "none" => Header(r, "Content-Type") = "(absent)"

\* C19 amended: every request carries the key header, with the api_key of the
\* client unless the caller passed a header of that name, whose value then
\* stands in its place; the Content-Type is application/json for a dict body
\* and application/octet-stream for a bytes body whatever the caller passed;
\* for an absent body the request has no Content-Type unless the caller
\* passed one, which is then kept; the requests of the client operations,
\* which pass no headers, carry the api_key and no Content-Type without a body
C19_Amended ==
    JustRequested =>
       LET r == wire[Len(wire)]
           passed(name) == Header([headers |-> call.headers], name)
       IN  /\ Header(r, "Ocp-Apim-Subscription-Key") =
                 (IF passed("Ocp-Apim-Subscription-Key") = "(absent)"
                  THEN client.api_key ELSE passed("Ocp-Apim-Subscription-Key"))
           /\ BodyFollows(r)
           /\ BodyKind = "dict" => Header(r, "Content-Type") = "application/json"
           /\ BodyKind = "bytes" => Header(r, "Content-Type") = "application/octet-stream"
           /\ BodyKind = "none" => Header(r, "Content-Type") = passed("Content-Type")
           /\ call.op # "_make_request" =>
                 /\ call.headers = <<>>
                 /\ Header(r, "Ocp-Apim-Subscription-Key") = client.api_key

\* C19 witness: _make_request was called with a dict body and an extra Accept
\* header; the request carries the key, the extra header and the JSON type
C19_Witness ==
    /\ JustRequested /\ call.op = "_make_request"
    /\ call.headers = <<KV("Accept", "application/json")>>
    /\ BodyKind = "dict"
    /\ wire[1].headers = <<KV("Ocp-Apim-Subscription-Key", "k"),
                           KV("Accept", "application/json"),
                           KV("Content-Type", "application/json")>>
    /\ wire[1].data.text = "{\"name\": \"Family\"}"

\* the id matches [A-Za-z0-9_-]+ (decided for the ids of the model)
MatchesIdPattern(person_group_id) ==
    CASE person_group_id \in {"family", "family_2-A", "guests", "office"} -> TRUE
      [] person_group_id \in {"bad id!", ""} -> FALSE

\* the request is one that creates a person group
IsCreateGroupRequest(r) == r.method = "PUT"

\* C20: a request that creates a person group goes out only for an id that
\* matches [A-Za-z0-9_-]+ and a non-empty name; a call of create_person_group,
\* on the client or through the service, with another id or an empty name
\* issues no request
C20_CreateGroupValidated ==
    call.op = "create_person_group" =>
       /\ (\E i \in 1..Len(wire) : IsCreateGroupRequest(wire[i])) =>
             (MatchesIdPattern(call.person_group_id) /\ call.name # "")
       /\ (~MatchesIdPattern(call.person_group_id) \/ call.name = "") => wire = <<>>

\* the task has ended
TaskEnded(t) == tasks[t].pc \in {"returned", "raised"}

\* what the operation sends and what it makes of a reply when it runs alone
AloneRequest(c) == HttpRequest(RequestOf(c))
AloneResult(c, r) ==
    IF c.op \in {"detect_faces", "add_person_face"} /\ _validate_image(c.image).kind = "raise"
    THEN _validate_image(c.image)
    ELSE IF r.kind = "failure" THEN OpResult(c.op, ExceptClientError(Raise(r.err)))
    ELSE OpResult(c.op, ExceptClientError(HandleResponse(r.status, r.text)))

\* C21: no operation changes the client, which holds nothing but its
\* endpoint and api_key (and the session), and whatever the interleaving of
\* two invocations on it each sends the request and ends with the result it
\* would send and end with alone, given the reply its own request got
C21_NoInterference ==
    /\ client = AzureFaceClient("https://eastus.api.cognitive.microsoft.com", "k")
    /\ DOMAIN client = {"endpoint", "api_key"}
    /\ Len(wire) = Cardinality({ t \in TaskIds : tasks[t].slot # 0 })
    /\ \A t \in TaskIds :
          /\ tasks[t].slot # 0 =>
                (tasks[t].slot <= Len(wire) /\ wire[tasks[t].slot] = AloneRequest(tasks[t].call))
          /\ TaskEnded(t) => tasks[t].result = AloneResult(tasks[t].call, tasks[t].reply)
          /\ (TaskEnded(t) /\ tasks[t].call.op = "get_person"
              /\ tasks[t].reply = Response(200, "{}")) =>
                tasks[t].result = Return(JDict(<<>>))
          /\ (TaskEnded(t) /\ tasks[t].reply.kind = "response"
              /\ tasks[t].reply.status = 401) =>
                tasks[t].result =
                   Raise(AzureFaceAPIError("Authentication failed. Please check your API key.",
                                           "authentication_failed"))

\* C21 witness: both invocations had their request out before either got a
\* reply, the second was answered first, with a 401, the first then with
\* a 200, and each ended with the result of its own reply
C21_Witness ==
    /\ TaskEnded(1) /\ TaskEnded(2)
    /\ tasks[1].prior = 0 /\ tasks[2].prior = 0
    /\ tasks[1].slot = 1 /\ tasks[2].slot = 2
    /\ tasks[1].call.op = "get_person" /\ tasks[2].call.op = "create_person_group"
    /\ tasks[2].reply = Response(401, "")
    /\ tasks[1].reply = Response(200, "{}")
    /\ reply = Response(401, "")
    /\ tasks[1].result = Return(JDict(<<>>))
    /\ tasks[2].result.kind = "raise"

\* the reply is a success of the remote service: a status below 400 with an
\* empty body or a JSON body
SuccessReply(r) == r.kind = "response" /\ r.status < 400 /\ r.text \in {"", "{}"}

\* create_person_group was called with the same arguments first by a and,
\* when that call had ended, by b, and both requests were answered with success
CreatedTwice(a, b) ==
    /\ a # b /\ TaskEnded(a) /\ TaskEnded(b)
    /\ tasks[a].prior = 0 /\ tasks[b].prior = 1
    /\ tasks[a].call.op = "create_person_group"
    /\ tasks[b].call = tasks[a].call
    /\ SuccessReply(tasks[a].reply) /\ SuccessReply(tasks[b].reply)

\* C22: create_person_group called twice with the same arguments, both PUT
\* requests answered with success: the two requests are the same PUT, both
\* calls return None, and the client is as it was before the first call
C22_CreateTwice ==
    \A a, b \in TaskIds :
        CreatedTwice(a, b) =>
           /\ Len(wire) = 2
           /\ wire[1] = wire[2]
           /\ wire[1].method = "PUT"
           /\ wire[1].url = "https://eastus.api.cognitive.microsoft.com/face/v1.0/persongroups/"
                               \o tasks[a].call.person_group_id
           /\ tasks[a].result = Return(JNone)
           /\ tasks[b].result = Return(JNone)
           /\ client = AzureFaceClient("https://eastus.api.cognitive.microsoft.com", "k")

\* C22 witness: the group "guests" was created twice in a row, each PUT
\* answered with an empty 200
C22_Witness ==
    /\ CreatedTwice(1, 2)
    /\ tasks[1].call.person_group_id = "guests"
    /\ tasks[1].reply = Response(200, "") /\ tasks[2].reply = Response(200, "")
    /\ Len(wire) = 2 /\ wire[1] = wire[2]
    /\ tasks[2].result = Return(JNone)

\* the source the call should take its image from: the first supplied of
\* image_data, image_path, image_url
FirstSupplied ==
    IF loc.image_data.kind # "absent" THEN "image_data"
    ELSE IF loc.image_path.kind # "absent" THEN "image_path"
    ELSE IF loc.image_url.kind # "absent" THEN "image_url"
    ELSE "none"

\* the image the three sources of the model hold
ImageHeldBy(source) ==
    CASE source = "image_data" -> SourceImage("JPEG")
      [] source = "image_path" -> SourceImage("PNG")
      [] source = "image_url" -> SourceImage("GIF")

\* C23: upload_person_image reads at most one source, the first supplied of
\* inline base64 data, file path and URL, and sends the image of that source;
\* with no source supplied it fails with "Must provide either image_data,
\* image_path, or image_url" with no look-up of the client, no request and
\* no event
C23_SourcePrecedence ==
    svc = "upload_person_image" =>
       /\ loc.read \in {<<>>, <<FirstSupplied>>}
       /\ FirstSupplied = "none" =>
             /\ loc.read = <<>>
             /\ spc = "done"
             /\ outcome = Raise(HomeAssistantError(
                            "Must provide either image_data, image_path, or image_url"))
             /\ events = <<>> /\ wire = <<>> /\ call = NoCall
       /\ call.op = "add_person_face" =>
             /\ loc.read = <<FirstSupplied>>
             /\ call.image = ImageHeldBy(FirstSupplied)
       /\ (FirstSupplied # "none" /\ hass_data # <<>>) => loc.read = <<FirstSupplied>>

\* C23 witness: all three sources were supplied, the inline data was read
\* and its image sent
C23_Witness ==
    /\ svc = "upload_person_image" /\ spc = "done"
    /\ loc.image_data.kind = "ok" /\ loc.image_path.kind = "ok" /\ loc.image_url.kind = "ok"
    /\ loc.read = <<"image_data">>
    /\ call.image.format = "JPEG"
    /\ Len(wire) = 1 /\ wire[1].data.image.format = "JPEG"
    /\ outcome.kind = "return"

\* C23 second case reached: no source supplied and no entry configured, the
\* handler failed on the missing source
C23_NoSourceReached ==
    /\ svc = "upload_person_image" /\ spc = "done"
    /\ FirstSupplied = "none" /\ hass_data = <<>>
    /\ outcome.err.message = "Must provide either image_data, image_path, or image_url"

\* a success status came with a body that is text but not JSON
SuccessNotJson ==
    /\ Answered
    /\ reply.status < 400
    /\ reply.text \in NonJsonTexts \ {""}

\* C24: a success status with a non-empty body that is not JSON makes the
\* operation raise AzureFaceAPIError, and a service handler that made the
\* call ends with its error event fired; whatever a client operation raises
\* is an AzureFaceAPIError
C24_TypedFailures ==
    /\ SuccessNotJson =>
          /\ cres.kind = "raise"
          /\ cres.err.exc = "AzureFaceAPIError"
          /\ (svc \in Services /\ spc = "done") => Len(events) >= 1
    /\ cpc = "raised" => cres.err.exc = "AzureFaceAPIError"

\* the user step ended
UserStepDone == svc = "step_user" /\ spc = "done" /\ loc.validated # Pending

\* the connection test of the user step got the answer 401
TestGot401 == reply.kind = "response" /\ reply.status = 401

\* C25: validate_input raises InvalidAuth, and the user step reports
\* invalid_auth, only after the answer 401; after any other AzureFaceAPIError
\* of the connection test (an error status, a network failure) it raises
\* CannotConnect and the user step reports cannot_connect
C25_FailureKinds ==
    UserStepDone =>
       /\ (loc.validated.kind = "raise" /\ loc.validated.err.exc = "InvalidAuth")
             => TestGot401
       /\ loc.errors = "invalid_auth" => TestGot401
       /\ (cres.kind = "raise" /\ cres.err.exc = "AzureFaceAPIError" /\ ~TestGot401) =>
             /\ loc.validated = Raise(CannotConnect)
             /\ loc.errors = "cannot_connect"

\* async_setup_entry takes the result of its connection test, which is this
SetupEnding(tested) ==
    /\ svc \in {"setup_entry", "reload_entry"} /\ spc = "list"
    /\ cpc \in {"returned", "raised"}
    /\ TestConnection(cres) = tested
    /\ spc' \in {"panel", "done"}

\* the registry entry with this id, when there is one
EntryOf(registry, entry_id) ==
    { registry[i] : i \in { j \in 1..Len(registry) : registry[j].entry_id = entry_id } }

\* what one step may do to the registry and to the services
RegistryStep ==
    /\ \A id \in EntryIds(hass_data') \ EntryIds(hass_data) :
          /\ SetupEnding(Return(JBool(TRUE)))
          /\ loc.entry_id = id
    /\ SetupEnding(Return(JBool(FALSE))) =>
          /\ outcome' = Raise(ConfigEntryNotReady("Unable to connect to Azure Face API"))
          /\ hass_data' = hass_data
          /\ registered' = registered
    /\ registered' # registered => SetupEnding(Return(JBool(TRUE)))
    /\ (svc = "none" /\ svc' = "unload_entry" /\ loc'.entry_id \in EntryIds(hass_data)) =>
          /\ EntryIds(hass_data') = EntryIds(hass_data) \ {loc'.entry_id}
          /\ \A id \in EntryIds(hass_data') :
                EntryOf(hass_data', id) = EntryOf(hass_data, id)
          /\ Len(hass_data') = Len(hass_data) - 1

\* a reload ended with its setup failed
ReloadFailed ==
    /\ svc = "reload_entry" /\ spc = "done"
    /\ outcome.kind = "raise"

\* a setup, on its own or inside a reload, ended with a failure of the
\* panel registration
PanelFailed ==
    /\ svc \in {"setup_entry", "reload_entry"} /\ spc = "done"
    /\ outcome.kind = "raise" /\ outcome.err \in PanelFailures

\* no other setup, unload or reload of the same entry has been under way
\* since this one started; calls on other entries and service calls may have
NoOtherOnEntry == loc.entry_id \notin contended

\* C26 as stated: starting from the empty registry, an entry id enters
\* hass.data[DOMAIN] only at the end of an async_setup_entry for that entry
\* whose connection test returned true; when the test returns false the setup
\* raises ConfigEntryNotReady and changes neither the registry nor the
\* registered services; async_unload_entry removes the one entry id and leaves
\* the others as they are; after a reload whose setup failed the entry is absent
C26_Original ==
    /\ [][RegistryStep]_vars
    /\ [](ReloadFailed => loc.entry_id \notin EntryIds(hass_data))

\* C26 amended: the same for the way into the registry, the failed connection
\* test and the unload, whatever runs beside them.  After a reload during
\* which no other setup, unload or reload of the same entry was under way,
\* the entry is absent when the reload failed in its unload or in the
\* connection test of its setup, and present, with the services registered,
\* when its setup failed later, in the registration of the panel; a setup
\* that fails there leaves its entry stored as well
C26_Amended ==
    /\ [][RegistryStep]_vars
    /\ []((ReloadFailed /\ ~PanelFailed /\ NoOtherOnEntry) =>
             loc.entry_id \notin EntryIds(hass_data))
    /\ []((PanelFailed /\ NoOtherOnEntry) =>
             (loc.entry_id \in EntryIds(hass_data) /\ registered))

\* C26 witness: the reload of entry1 failed on its connection test while a
\* setup of entry2 was under way beside it, suspended in the registration of
\* the panel with entry2 stored; entry1 is gone, entry2 is still there
C26_Witness ==
    /\ ReloadFailed /\ NoOtherOnEntry
    /\ loc.entry_id = "entry1"
    /\ reply.kind = "failure"
    /\ outcome = Raise(ConfigEntryNotReady("Unable to connect to Azure Face API"))
    /\ parked.svc = "setup_entry" /\ parked.loc.entry_id = "entry2" /\ parked.spc = "panel"
    /\ EntryIds(hass_data) = {"entry2"}
    /\ registered

\* C26 reached on its own: with both entries set up and no other call under
\* way, the reload of entry1 got 500 on its connection test; entry1 is gone
C26_AloneReached ==
    /\ ReloadFailed /\ parked = NoParked /\ contended = {}
    /\ loc.entry_id = "entry1"
    /\ reply.kind = "response" /\ reply.status = 500
    /\ outcome = Raise(ConfigEntryNotReady("Unable to connect to Azure Face API"))
    /\ EntryIds(hass_data) = {"entry2"}
    /\ hass_data[1].client = AzureFaceClient("https://eastus.api.cognitive.microsoft.com/", "k2")
    /\ registered

\* C26 second case reached: the reload of entry1 failed in the registration
\* of the panel; entry1 is stored again
C26_PanelFailureReached ==
    /\ PanelFailed /\ NoOtherOnEntry /\ svc = "reload_entry"
    /\ loc.entry_id = "entry1"
    /\ outcome = Raise(Exc("RuntimeError", "none", "static path already registered"))
    /\ "entry1" \in EntryIds(hass_data)
    /\ registered

\* C26, the case left out reached: while the reload of entry1 waited for its
\* connection test a setup of entry1 ran to its end and stored the entry;
\* the reload then failed on its test and entry1 is in the registry
C26_SameEntryReached ==
    /\ ReloadFailed /\ ~PanelFailed /\ ~NoOtherOnEntry
    /\ loc.entry_id = "entry1"
    /\ "entry1" \in EntryIds(hass_data)

\* C26 first case reached: a setup failed on its connection test with
\* nothing set up before, the registry is empty and no service registered
C26_FailedSetupReached ==
    /\ svc = "setup_entry" /\ spc = "done"
    /\ outcome = Raise(ConfigEntryNotReady("Unable to connect to Azure Face API"))
    /\ hass_data = <<>>
    /\ ~registered

====
